---- MODULE Spec2Model ----
(***************************************************************************)
(* Model of the MPM fracture line-crossing core (utils.ts, kept in         *)
(* src/README.md from line 61 on): the signed-area crossing predicate,     *)
(* the connectivity builder, the per-pair field accumulation with          *)
(* cancellation, the per-node consistency pass, the base-3 field encoder   *)
(* and the step trace that generateSimulationSteps records.                *)
(*                                                                         *)
(* Coordinates are integers of a small grid, so every area and distance is *)
(* exact, as it is in IEEE doubles for such inputs.  Node and particle ids *)
(* are unique (the interface's precondition); a pair key `${n}-${p}` is    *)
(* the tuple <<n, p>>.                                                     *)
(***************************************************************************)
EXTENDS Integers, Sequences, FiniteSets, TLC

VARIABLES
    nodes,              \* input: sequence of [id, x, y]
    particles,          \* input: sequence of [id, x, y]
    cracks,             \* input: sequence of [id, points]
    particleToNodes,    \* particle id -> sequence of node ids (nearest first)
    nodeToParticles,    \* node id -> sequence of particle ids
    fieldAccumulator,   \* <<node id, particle id>> -> sequence of labels, one per crack
    steps,              \* the trace built so far
    stepCounter,
    pc,                 \* position inside generateSimulationSteps
    crackIdx,           \* 0-based index of the crack being processed
    pIdx,               \* 1-based position in particles (crossing phase)
    cIdx,               \* 1-based position in particleToNodes[p.id]
    segIdx,             \* 0-based segment index i of the segment loop
    field2_count,
    field3_count,
    nIdx,               \* 1-based position in nodes (consistency phase)
    sortedFields,       \* labels seen by the node under check, ascending
    ccArgs,             \* arguments of a stand-alone call of a function
    ccRet,              \* what stand-alone calls returned
    simulationSteps,    \* the trace a finished call handed to the caller
    currentStepIndex,   \* App state: 0-based index of the step on display
    isPlaying,          \* App state: playback is on
    playbackSpeed       \* App state: milliseconds between two timer ticks

vars == <<nodes, particles, cracks, particleToNodes, nodeToParticles,
          fieldAccumulator, steps, stepCounter, pc, crackIdx, pIdx, cIdx,
          segIdx, field2_count, field3_count, nIdx, sortedFields, ccArgs, ccRet,
          simulationSteps, currentStepIndex, isPlaying, playbackSpeed>>

genVars == <<nodes, particles, cracks, particleToNodes, nodeToParticles,
             fieldAccumulator, steps, stepCounter, pc, crackIdx, pIdx, cIdx,
             segIdx, field2_count, field3_count, nIdx, sortedFields,
             simulationSteps, currentStepIndex, isPlaying, playbackSpeed>>

-----------------------------------------------------------------------------
(* Bounds of the model *)

MaxCoord == 2        \* stand-alone predicate calls use the grid 0..MaxCoord
MaxNodes == 2        \* nodes of a trace run
MaxParticles == 3    \* particles of a trace run
MaxCracks == 2       \* cracks of a trace run
MaxPoints == 4       \* points of one crack polyline
MaxConnNodes == 5    \* nodes of a connectivity-only run
MaxConnParticles == 2 \* particles of a connectivity-only run

Pt(a, b) == [x |-> a, y |-> b]

Grid == {Pt(a, b) : a \in 0..MaxCoord, b \in 0..MaxCoord}

-----------------------------------------------------------------------------
(* Geometry predicate *)

\* the area as a magnitude, without its sign
triangleAreaUnsigned(x1, x2, x3) ==
    LET a == x1.x * (x2.y - x3.y) + x2.x * (x3.y - x1.y) + x3.x * (x1.y - x2.y)
    IN  IF a < 0 THEN -a ELSE a

triangleArea(x1, x2, x3) ==
    x1.x * (x2.y - x3.y) + x2.x * (x3.y - x1.y) + x3.x * (x1.y - x2.y)

distSq(p1, p2) == (p1.x - p2.x) * (p1.x - p2.x) + (p1.y - p2.y) * (p1.y - p2.y)

\* checkCrossing without the branch of the "below" pattern
checkCrossingAboveOnly(p, n, cStart, cEnd) ==
    LET area1 == triangleArea(p, n, cStart)
        area2 == triangleArea(p, n, cEnd)
        area3 == triangleArea(cStart, cEnd, p)
        area4 == triangleArea(cStart, cEnd, n)
        result == IF area1 < 0 /\ area2 >= 0 /\ area3 >= 0 /\ area4 < 0 THEN 2
                  ELSE 0
    IN  [result |-> result,
         areas |-> [area1 |-> area1, area2 |-> area2,
                    area3 |-> area3, area4 |-> area4]]

\* checkCrossing with both sides of every comparison taking zero
checkCrossingNonStrict(p, n, cStart, cEnd) ==
    LET area1 == triangleArea(p, n, cStart)
        area2 == triangleArea(p, n, cEnd)
        area3 == triangleArea(cStart, cEnd, p)
        area4 == triangleArea(cStart, cEnd, n)
        result == IF area1 <= 0 /\ area2 >= 0 /\ area3 >= 0 /\ area4 <= 0 THEN 2
                  ELSE IF area1 >= 0 /\ area2 <= 0 /\ area3 <= 0 /\ area4 >= 0 THEN 3
                  ELSE 0
    IN  [result |-> result,
         areas |-> [area1 |-> area1, area2 |-> area2,
                    area3 |-> area3, area4 |-> area4]]

\* checkCrossing with the "above" pattern strict in area2 and area3
checkCrossingStrict(p, n, cStart, cEnd) ==
    LET area1 == triangleArea(p, n, cStart)
        area2 == triangleArea(p, n, cEnd)
        area3 == triangleArea(cStart, cEnd, p)
        area4 == triangleArea(cStart, cEnd, n)
        result == IF area1 < 0 /\ area2 > 0 /\ area3 > 0 /\ area4 < 0 THEN 2
                  ELSE IF area1 >= 0 /\ area2 < 0 /\ area3 < 0 /\ area4 >= 0 THEN 3
                  ELSE 0
    IN  [result |-> result,
         areas |-> [area1 |-> area1, area2 |-> area2,
                    area3 |-> area3, area4 |-> area4]]

checkCrossing(p, n, cStart, cEnd) ==
    LET area1 == triangleArea(p, n, cStart)
        area2 == triangleArea(p, n, cEnd)
        area3 == triangleArea(cStart, cEnd, p)
        area4 == triangleArea(cStart, cEnd, n)
        result == IF area1 < 0 /\ area2 >= 0 /\ area3 >= 0 /\ area4 < 0 THEN 2
                  ELSE IF area1 >= 0 /\ area2 < 0 /\ area3 < 0 /\ area4 >= 0 THEN 3
                  ELSE 0
    IN  [result |-> result,
         areas |-> [area1 |-> area1, area2 |-> area2,
                    area3 |-> area3, area4 |-> area4]]

-----------------------------------------------------------------------------
(* Connectivity builder *)

Min(a, b) == IF a < b THEN a ELSE b

\* the rank under a sort that puts the later of two equidistant nodes first
RankTiesLast(ns, p, i) ==
    Cardinality({j \in 1..Len(ns) :
        \/ distSq(p, ns[j]) < distSq(p, ns[i])
        \/ distSq(p, ns[j]) = distSq(p, ns[i]) /\ j > i})

\* number of nodes that a stable ascending sort by distance puts before ns[i]
Rank(ns, p, i) ==
    Cardinality({j \in 1..Len(ns) :
        \/ distSq(p, ns[j]) < distSq(p, ns[i])
        \/ distSq(p, ns[j]) = distSq(p, ns[i]) /\ j < i})

\* [...nodes].sort((a, b) => distSq(p, a) - distSq(p, b))
SortByDistance(ns, p) ==
    [k \in 1..Len(ns) |-> ns[CHOOSE i \in 1..Len(ns) : Rank(ns, p, i) = k - 1]]

\* sortedNodes.slice(0, 4)
\* the three nearest nodes instead of four
ConnectedNearestThree(ns, p) ==
    LET sortedNodes == SortByDistance(ns, p)
    IN  SubSeq(sortedNodes, 1, Min(3, Len(sortedNodes)))

Connected(ns, p) ==
    LET sortedNodes == SortByDistance(ns, p)
    IN  SubSeq(sortedNodes, 1, Min(4, Len(sortedNodes)))

Ids(s) == [i \in 1..Len(s) |-> s[i].id]

IdSet(s) == {s[i].id : i \in 1..Len(s)}

\* the last element of s that carries id (a later write to the same key wins)
LastWithId(s, id) ==
    s[CHOOSE i \in 1..Len(s) : s[i].id = id /\ \A j \in (i + 1)..Len(s) : s[j].id # id]

BuildParticleToNodes(ns, ps) ==
    [pid \in IdSet(ps) |-> Ids(Connected(ns, LastWithId(ps, pid)))]

RECURSIVE PushAll(_, _, _)
\* connected.forEach(n => nodeToParticles[n.id].push(p.id))
PushAll(n2p, cids, pid) ==
    IF cids = <<>> THEN n2p
    ELSE PushAll([n2p EXCEPT ![Head(cids)] = Append(@, pid)], Tail(cids), pid)

RECURSIVE BuildNodeToParticlesFrom(_, _, _)
BuildNodeToParticlesFrom(n2p, ns, ps) ==
    IF ps = <<>> THEN n2p
    ELSE BuildNodeToParticlesFrom(
            PushAll(n2p, Ids(Connected(ns, Head(ps))), Head(ps).id), ns, Tail(ps))

BuildNodeToParticles(ns, ps) ==
    BuildNodeToParticlesFrom([nid \in IdSet(ns) |-> <<>>], ns, ps)

-----------------------------------------------------------------------------
(* Field encoder *)

\* powers of two in place of powers of three
RECURSIVE Pow2(_)
Pow2(n) == IF n = 0 THEN 1 ELSE 2 * Pow2(n - 1)

RECURSIVE Pow3(_)
Pow3(n) == IF n = 0 THEN 1 ELSE 3 * Pow3(n - 1)

RECURSIVE Combine(_, _)
\* val += fieldVal * (3 ** idx) over the first k labels (idx = 0..k-1)
Combine(labels, k) ==
    IF k = 0 THEN 0 ELSE Combine(labels, k - 1) + labels[k] * Pow3(k - 1)

computeCombinedField(acc) ==
    [key \in DOMAIN acc |-> Combine(acc[key], Len(acc[key]))]

\* the keys `${nodeId}-${p.id}` of the connected pairs
PairKeys(ps, p2n) ==
    UNION {{<<p2n[ps[i].id][j], ps[i].id>> : j \in 1..Len(p2n[ps[i].id])} :
              i \in 1..Len(ps)}

\* new Array(cracks.length).fill(0)
InitialAccumulatorZero(ps, p2n, nCracks) ==
    [key \in PairKeys(ps, p2n) |-> [c \in 1..nCracks |-> 0]]

InitialAccumulator(ps, p2n, nCracks) ==
    [key \in PairKeys(ps, p2n) |-> [c \in 1..nCracks |-> 1]]

-----------------------------------------------------------------------------
(* Inputs of a trace run *)

NodePts == {Pt(5, 2), Pt(1, 0)}

ParticleList == <<Pt(4, 2), Pt(0, 3), Pt(1, 3)>>

\* a zigzag path; the crack polylines of a run are stretches of it
CrackPath == <<Pt(3, 4), Pt(2, 0), Pt(0, 5), Pt(5, 1)>>

SeqsUpTo(S, n) == UNION {[1..k -> S] : k \in 0..n}

NoRep(s) == \A i, j \in 1..Len(s) : i # j => s[i] # s[j]

\* the elements of list at the positions in S, in list order
Pick(list, S) ==
    [k \in 1..Cardinality(S) |->
        list[CHOOSE i \in S : Cardinality({h \in S : h < i}) = k - 1]]

\* ids are the input positions 0, 1, ... as in the presets
WithIds(pts) == [i \in 1..Len(pts) |-> [id |-> i - 1, x |-> pts[i].x, y |-> pts[i].y]]

NodeInputs == {WithIds(s) : s \in {t \in SeqsUpTo(NodePts, MaxNodes) : NoRep(t)}}

ParticleInputs ==
    {WithIds(Pick(ParticleList, S)) :
        S \in {T \in SUBSET (1..Len(ParticleList)) : Cardinality(T) <= MaxParticles}}

\* the stretches of CrackPath with at least one segment, and two polylines
\* without any segment: no point, one point
Polylines ==
    {SubSeq(CrackPath, w[1], w[1] + w[2] - 1) :
        w \in {v \in (1..Len(CrackPath)) \X (2..MaxPoints) :
                 v[1] + v[2] - 1 <= Len(CrackPath)}}
    \cup {<<>>, <<CrackPath[1]>>}

CrackInputs ==
    {[i \in 1..Len(s) |-> [id |-> i - 1, points |-> s[i]]] :
        s \in SeqsUpTo(Polylines, MaxCracks)}

-----------------------------------------------------------------------------
(* generateSimulationSteps *)

Last(s) == s[Len(s)]

\* nodes.find(node => node.id === nodeId)!
FindNode(nodeId) ==
    nodes[CHOOSE i \in 1..Len(nodes) :
            nodes[i].id = nodeId /\ \A j \in 1..(i - 1) : nodes[j].id # nodeId]

CurCrack == cracks[crackIdx + 1]

CurParticle == particles[pIdx]

CurNode == FindNode(particleToNodes[CurParticle.id][cIdx])

\* positions (particle, connected node) of the two nested forEach loops
PairPositions ==
    {pos \in (1..Len(particles)) \X (1..Len(nodes)) :
        pos[2] <= Len(particleToNodes[particles[pos[1]].id])}

Before(a, b) == a[1] < b[1] \/ (a[1] = b[1] /\ a[2] < b[2])

PairsAfter(pos) == {q \in PairPositions : Before(pos, q)}

FirstOf(S) == CHOOSE q \in S : \A r \in S : r = q \/ Before(q, r)

\* entering a pair without setting the two counts back to 0
EnterPairKeepingCounts(pos) ==
    IF PairsAfter(pos) = {}
    THEN /\ pc' = "consistency"
         /\ UNCHANGED <<pIdx, cIdx>>
         /\ segIdx' = 0 /\ field2_count' = 0 /\ field3_count' = 0
    ELSE LET q == FirstOf(PairsAfter(pos))
         IN  /\ pIdx' = q[1] /\ cIdx' = q[2]
             /\ segIdx' = 0 /\ UNCHANGED <<field2_count, field3_count>>
             /\ pc' = IF 0 < Len(CurCrack.points) - 1 THEN "segment" ELSE "result"

\* enter the body of the pair loop at the first position after pos, or leave
\* the crossing phase when there is none
EnterPairAfter(pos) ==
    IF PairsAfter(pos) = {}
    THEN /\ pc' = "consistency"
         /\ UNCHANGED <<pIdx, cIdx>>
         /\ segIdx' = 0 /\ field2_count' = 0 /\ field3_count' = 0
    ELSE LET q == FirstOf(PairsAfter(pos))
         IN  /\ pIdx' = q[1] /\ cIdx' = q[2]
             /\ segIdx' = 0 /\ field2_count' = 0 /\ field3_count' = 0
             /\ pc' = IF 0 < Len(CurCrack.points) - 1 THEN "segment" ELSE "result"

\* leave the body of the node loop of the consistency phase
NextNode ==
    IF nIdx < Len(nodes)
    THEN nIdx' = nIdx + 1 /\ pc' = "node" /\ UNCHANGED crackIdx
    ELSE nIdx' = 1 /\ pc' = "crack" /\ crackIdx' = crackIdx + 1

Init ==
    /\ nodes \in NodeInputs
    /\ particles \in ParticleInputs
    /\ cracks \in CrackInputs
    /\ particleToNodes = <<>>
    /\ nodeToParticles = <<>>
    /\ fieldAccumulator = <<>>
    /\ steps = <<>>
    /\ stepCounter = 0
    /\ pc = "connectivity"
    /\ crackIdx = 0
    /\ pIdx = 1 /\ cIdx = 1 /\ segIdx = 0
    /\ field2_count = 0 /\ field3_count = 0
    /\ nIdx = 1
    /\ sortedFields = <<>>
    /\ ccArgs = <<>>
    /\ ccRet = <<>>
    /\ simulationSteps = <<>>
    /\ currentStepIndex = 0 /\ isPlaying = FALSE /\ playbackSpeed = 500

\* lines 104-119
BuildConnectivity ==
    /\ pc = "connectivity"
    /\ particleToNodes' = BuildParticleToNodes(nodes, particles)
    /\ nodeToParticles' = BuildNodeToParticles(nodes, particles)
    /\ pc' = "init"
    /\ UNCHANGED <<nodes, particles, cracks, fieldAccumulator, steps, stepCounter,
                   crackIdx, pIdx, cIdx, segIdx, field2_count, field3_count,
                   nIdx, sortedFields, ccArgs, ccRet, simulationSteps,
                   currentStepIndex, isPlaying, playbackSpeed>>

\* an initialization step numbered with ++stepCounter instead of stepCounter++
InitializeFromOne ==
    /\ pc = "init"
    /\ LET acc == InitialAccumulator(particles, particleToNodes, Len(cracks))
       IN  /\ fieldAccumulator' = acc
           /\ steps' = Append(steps,
                 [stepId |-> stepCounter + 1,
                  description |-> <<"Initialization">>,
                  currentFieldState |-> computeCombinedField(acc)])
    /\ stepCounter' = stepCounter + 1
    /\ pc' = "crack"
    /\ UNCHANGED <<nodes, particles, cracks, particleToNodes, nodeToParticles,
                   crackIdx, pIdx, cIdx, segIdx, field2_count, field3_count,
                   nIdx, sortedFields, ccArgs, ccRet, simulationSteps,
                   currentStepIndex, isPlaying, playbackSpeed>>

\* lines 134-149
Initialize ==
    /\ pc = "init"
    /\ LET acc == InitialAccumulator(particles, particleToNodes, Len(cracks))
       IN  /\ fieldAccumulator' = acc
           /\ steps' = Append(steps,
                 [stepId |-> stepCounter,
                  description |-> <<"Initialization">>,
                  currentFieldState |-> computeCombinedField(acc)])
    /\ stepCounter' = stepCounter + 1
    /\ pc' = "crack"
    /\ UNCHANGED <<nodes, particles, cracks, particleToNodes, nodeToParticles,
                   crackIdx, pIdx, cIdx, segIdx, field2_count, field3_count,
                   nIdx, sortedFields, ccArgs, ccRet, simulationSteps,
                   currentStepIndex, isPlaying, playbackSpeed>>

\* lines 151-157
CrackStart ==
    /\ pc = "crack"
    /\ crackIdx < Len(cracks)
    /\ steps' = Append(steps,
          [stepId |-> stepCounter,
           description |-> <<"Processing Crack", CurCrack.id + 1>>,
           highlightCrackId |-> CurCrack.id,
           currentFieldState |-> computeCombinedField(fieldAccumulator)])
    /\ stepCounter' = stepCounter + 1
    /\ EnterPairAfter(<<0, 0>>)
    /\ UNCHANGED <<nodes, particles, cracks, particleToNodes, nodeToParticles,
                   fieldAccumulator, crackIdx, nIdx, sortedFields, ccArgs, ccRet,
                   simulationSteps,
                   currentStepIndex, isPlaying, playbackSpeed>>

\* lines 171-197: one pass of the segment loop
SegmentTest ==
    /\ pc = "segment"
    /\ LET p == CurParticle
           n == CurNode
           i == segIdx
           start == CurCrack.points[i + 1]
           end == CurCrack.points[i + 2]
           cc == checkCrossing(p, n, start, end)
           f2 == IF cc.result = 2 THEN field2_count + 1 ELSE field2_count
           f3 == IF cc.result = 3 THEN field3_count + 1 ELSE field3_count
       IN  /\ field2_count' = f2
           /\ field3_count' = f3
           /\ steps' = Append(steps,
                 [stepId |-> stepCounter,
                  description |-> <<"Checking Node", n.id, p.id, i>>,
                  highlightNodeId |-> n.id,
                  highlightParticleId |-> p.id,
                  highlightCrackId |-> CurCrack.id,
                  highlightSegmentIndex |-> i,
                  triangleA |-> <<p, n, start>>,
                  triangleB |-> <<p, n, end>>,
                  triangleC |-> <<start, end, p>>,
                  triangleD |-> <<start, end, n>>,
                  areas |-> cc.areas,
                  crossingResult |-> cc.result,
                  segmentCounts |-> [f2 |-> f2, f3 |-> f3],
                  currentFieldState |-> computeCombinedField(fieldAccumulator)])
           /\ segIdx' = i + 1
           /\ pc' = IF i + 1 < Len(CurCrack.points) - 1 THEN "segment" ELSE "result"
    /\ stepCounter' = stepCounter + 1
    /\ UNCHANGED <<nodes, particles, cracks, particleToNodes, nodeToParticles,
                   fieldAccumulator, crackIdx, pIdx, cIdx, nIdx, sortedFields,
                   ccArgs, ccRet, simulationSteps,
                   currentStepIndex, isPlaying, playbackSpeed>>

\* cancellation that removes the smaller count from field2_count only
CancelOneSided(f2, f3) ==
    IF f2 > 0 /\ f3 > 0
    THEN <<f2 - Min(f2, f3), f3>>
    ELSE <<f2, f3>>

\* lines 202-206
Cancel(f2, f3) ==
    IF f2 > 0 /\ f3 > 0
    THEN <<f2 - Min(f2, f3), f3 - Min(f2, f3)>>
    ELSE <<f2, f3>>

\* final field that keeps the crossing code 0 for "no net crossing"
FinalFieldRaw(f2, f3) ==
    LET c == Cancel(f2, f3)
    IN  IF c[1] % 2 = 1 THEN 2
        ELSE IF c[2] % 2 = 1 THEN 3
        ELSE 0

\* lines 200-209
FinalField(f2, f3) ==
    LET c == Cancel(f2, f3)
    IN  IF c[1] % 2 = 1 THEN 2
        ELSE IF c[2] % 2 = 1 THEN 3
        ELSE 1

ResultText(finalField) ==
    IF finalField = 1 THEN "No Net Crossing"
    ELSE IF finalField = 2 THEN "Net Above" ELSE "Net Below"

\* a result step for every pair, also when the label stays 1
PairResultAlwaysReports ==
    /\ pc = "result"
    /\ LET p == CurParticle
           n == CurNode
           key == <<n.id, p.id>>
           finalField == FinalField(field2_count, field3_count)
           acc == [fieldAccumulator EXCEPT ![key][crackIdx + 1] = finalField]
       IN  /\ fieldAccumulator' = acc
           /\ steps' = Append(steps,
                 [stepId |-> stepCounter,
                  description |-> <<"Result Node", n.id, p.id, ResultText(finalField)>>,
                  highlightNodeId |-> n.id,
                  highlightParticleId |-> p.id,
                  highlightCrackId |-> CurCrack.id,
                  crossingResult |-> finalField,
                  currentFieldState |-> computeCombinedField(acc)])
           /\ stepCounter' = stepCounter + 1
    /\ EnterPairAfter(<<pIdx, cIdx>>)
    /\ UNCHANGED <<nodes, particles, cracks, particleToNodes, nodeToParticles,
                   crackIdx, nIdx, sortedFields, ccArgs, ccRet, simulationSteps,
                   currentStepIndex, isPlaying, playbackSpeed>>

\* a result written to the slot of the first crack whatever crack is processed
PairResultFirstSlot ==
    /\ pc = "result"
    /\ LET p == CurParticle
           n == CurNode
           key == <<n.id, p.id>>
           finalField == FinalField(field2_count, field3_count)
           changed == fieldAccumulator[key][1] # finalField
           acc == [fieldAccumulator EXCEPT ![key][1] = finalField]
       IN  /\ fieldAccumulator' = acc
           /\ IF changed \/ finalField # 1
              THEN /\ steps' = Append(steps,
                         [stepId |-> stepCounter,
                          description |-> <<"Result Node", n.id, p.id, ResultText(finalField)>>,
                          highlightNodeId |-> n.id,
                          highlightParticleId |-> p.id,
                          highlightCrackId |-> CurCrack.id,
                          crossingResult |-> finalField,
                          currentFieldState |-> computeCombinedField(acc)])
                   /\ stepCounter' = stepCounter + 1
              ELSE UNCHANGED <<steps, stepCounter>>
    /\ EnterPairAfter(<<pIdx, cIdx>>)
    /\ UNCHANGED <<nodes, particles, cracks, particleToNodes, nodeToParticles,
                   crackIdx, nIdx, sortedFields, ccArgs, ccRet, simulationSteps,
                   currentStepIndex, isPlaying, playbackSpeed>>

\* a result step that takes its snapshot before the slot is overwritten
PairResultStaleSnapshot ==
    /\ pc = "result"
    /\ LET p == CurParticle
           n == CurNode
           key == <<n.id, p.id>>
           finalField == FinalField(field2_count, field3_count)
           changed == fieldAccumulator[key][crackIdx + 1] # finalField
           acc == [fieldAccumulator EXCEPT ![key][crackIdx + 1] = finalField]
       IN  /\ fieldAccumulator' = acc
           /\ IF changed \/ finalField # 1
              THEN /\ steps' = Append(steps,
                         [stepId |-> stepCounter,
                          description |-> <<"Result Node", n.id, p.id, ResultText(finalField)>>,
                          highlightNodeId |-> n.id,
                          highlightParticleId |-> p.id,
                          highlightCrackId |-> CurCrack.id,
                          crossingResult |-> finalField,
                          currentFieldState |-> computeCombinedField(fieldAccumulator)])
                   /\ stepCounter' = stepCounter + 1
              ELSE UNCHANGED <<steps, stepCounter>>
    /\ EnterPairAfter(<<pIdx, cIdx>>)
    /\ UNCHANGED <<nodes, particles, cracks, particleToNodes, nodeToParticles,
                   crackIdx, nIdx, sortedFields, ccArgs, ccRet, simulationSteps,
                   currentStepIndex, isPlaying, playbackSpeed>>

\* lines 199-225: cancellation, accumulator update and the result step
PairResult ==
    /\ pc = "result"
    /\ LET p == CurParticle
           n == CurNode
           key == <<n.id, p.id>>
           finalField == FinalField(field2_count, field3_count)
           changed == fieldAccumulator[key][crackIdx + 1] # finalField
           acc == [fieldAccumulator EXCEPT ![key][crackIdx + 1] = finalField]
       IN  /\ fieldAccumulator' = acc
           /\ IF changed \/ finalField # 1
              THEN /\ steps' = Append(steps,
                         [stepId |-> stepCounter,
                          description |-> <<"Result Node", n.id, p.id, ResultText(finalField)>>,
                          highlightNodeId |-> n.id,
                          highlightParticleId |-> p.id,
                          highlightCrackId |-> CurCrack.id,
                          crossingResult |-> finalField,
                          currentFieldState |-> computeCombinedField(acc)])
                   /\ stepCounter' = stepCounter + 1
              ELSE UNCHANGED <<steps, stepCounter>>
    /\ EnterPairAfter(<<pIdx, cIdx>>)
    /\ UNCHANGED <<nodes, particles, cracks, particleToNodes, nodeToParticles,
                   crackIdx, nIdx, sortedFields, ccArgs, ccRet, simulationSteps,
                   currentStepIndex, isPlaying, playbackSpeed>>

\* lines 229-235
ConsistencyStart ==
    /\ pc = "consistency"
    /\ steps' = Append(steps,
          [stepId |-> stepCounter,
           description |-> <<"Consistency Check Phase", CurCrack.id + 1>>,
           highlightCrackId |-> CurCrack.id,
           currentFieldState |-> computeCombinedField(fieldAccumulator)])
    /\ stepCounter' = stepCounter + 1
    /\ nIdx' = 1
    /\ IF Len(nodes) > 0
       THEN pc' = "node" /\ UNCHANGED crackIdx
       ELSE pc' = "crack" /\ crackIdx' = crackIdx + 1
    /\ UNCHANGED <<nodes, particles, cracks, particleToNodes, nodeToParticles,
                   fieldAccumulator, pIdx, cIdx, segIdx, field2_count, field3_count,
                   sortedFields, ccArgs, ccRet, simulationSteps,
                   currentStepIndex, isPlaying, playbackSpeed>>

\* Array.from(seenFields).sort((a, b) => a - b)
\* the labels in descending order
SortDescending(S) ==
    [k \in 1..Cardinality(S) |->
        CHOOSE v \in S : Cardinality({w \in S : w > v}) = k - 1]

SortAscending(S) ==
    [k \in 1..Cardinality(S) |->
        CHOOSE v \in S : Cardinality({w \in S : w < v}) = k - 1]

\* the labels seen at a node, the untouched label 1 left out
SeenFieldsCrossedOnly(n) ==
    {fieldAccumulator[<<n.id, nodeToParticles[n.id][k]>>][crackIdx + 1] :
        k \in 1..Len(nodeToParticles[n.id])} \ {1}

\* lines 243-247
SeenFields(n) ==
    {fieldAccumulator[<<n.id, nodeToParticles[n.id][k]>>][crackIdx + 1] :
        k \in 1..Len(nodeToParticles[n.id])}

Includes(s, v) == \E k \in 1..Len(s) : s[k] = v

\* the node loop without the skip of nodes that have no particle
NodeCheckEveryNode ==
    /\ pc = "node"
    /\ LET n == nodes[nIdx]
           sorted == SortAscending(SeenFields(n))
       IN  /\ sortedFields' = sorted
           /\ steps' = Append(steps,
                 [stepId |-> stepCounter,
                  description |-> <<"Node sees fields", n.id, sorted>>,
                  highlightNodeId |-> n.id,
                  consistencyNodeId |-> n.id,
                  consistencyFields |-> sorted,
                  currentFieldState |-> computeCombinedField(fieldAccumulator)])
           /\ stepCounter' = stepCounter + 1
           /\ IF Len(sorted) = 3
              THEN pc' = "warning" /\ UNCHANGED <<nIdx, crackIdx>>
              ELSE IF Len(sorted) = 2 /\ Includes(sorted, 1)
                        /\ (Includes(sorted, 2) \/ Includes(sorted, 3))
                   THEN pc' = "normalize" /\ UNCHANGED <<nIdx, crackIdx>>
                   ELSE NextNode
    /\ UNCHANGED <<nodes, particles, cracks, particleToNodes, nodeToParticles,
                   fieldAccumulator, pIdx, cIdx, segIdx, field2_count, field3_count,
                   ccArgs, ccRet, simulationSteps,
                   currentStepIndex, isPlaying, playbackSpeed>>

\* lines 237-263: a node without particles is skipped, any other gets its step
NodeCheck ==
    /\ pc = "node"
    /\ LET n == nodes[nIdx]
       IN  IF Len(nodeToParticles[n.id]) = 0
           THEN /\ NextNode
                /\ UNCHANGED <<steps, stepCounter, sortedFields>>
           ELSE LET sorted == SortAscending(SeenFields(n))
                IN  /\ sortedFields' = sorted
                    /\ steps' = Append(steps,
                          [stepId |-> stepCounter,
                           description |-> <<"Node sees fields", n.id, sorted>>,
                           highlightNodeId |-> n.id,
                           consistencyNodeId |-> n.id,
                           consistencyFields |-> sorted,
                           currentFieldState |-> computeCombinedField(fieldAccumulator)])
                    /\ stepCounter' = stepCounter + 1
                    /\ IF Len(sorted) = 3
                       THEN pc' = "warning" /\ UNCHANGED <<nIdx, crackIdx>>
                       ELSE IF Len(sorted) = 2 /\ Includes(sorted, 1)
                                 /\ (Includes(sorted, 2) \/ Includes(sorted, 3))
                            THEN pc' = "normalize" /\ UNCHANGED <<nIdx, crackIdx>>
                            ELSE NextNode
    /\ UNCHANGED <<nodes, particles, cracks, particleToNodes, nodeToParticles,
                   fieldAccumulator, pIdx, cIdx, segIdx, field2_count, field3_count,
                   ccArgs, ccRet, simulationSteps,
                   currentStepIndex, isPlaying, playbackSpeed>>

\* a warning that falls through into the two-label branch
NodeWarningFallsThrough ==
    /\ pc = "warning"
    /\ LET n == nodes[nIdx]
       IN  steps' = Append(steps,
              [stepId |-> stepCounter,
               description |-> <<"WARNING", n.id>>,
               highlightNodeId |-> n.id,
               consistencyNodeId |-> n.id,
               consistencyFields |-> sortedFields,
               currentFieldState |-> computeCombinedField(fieldAccumulator)])
    /\ stepCounter' = stepCounter + 1
    /\ pc' = "normalize"
    /\ UNCHANGED <<nodes, particles, cracks, particleToNodes, nodeToParticles,
                   fieldAccumulator, crackIdx, pIdx, cIdx, segIdx, field2_count,
                   field3_count, nIdx, sortedFields, ccArgs, ccRet, simulationSteps,
                   currentStepIndex, isPlaying, playbackSpeed>>

\* lines 265-274
NodeWarning ==
    /\ pc = "warning"
    /\ LET n == nodes[nIdx]
       IN  steps' = Append(steps,
              [stepId |-> stepCounter,
               description |-> <<"WARNING", n.id>>,
               highlightNodeId |-> n.id,
               consistencyNodeId |-> n.id,
               consistencyFields |-> sortedFields,
               currentFieldState |-> computeCombinedField(fieldAccumulator)])
    /\ stepCounter' = stepCounter + 1
    /\ NextNode
    /\ UNCHANGED <<nodes, particles, cracks, particleToNodes, nodeToParticles,
                   fieldAccumulator, pIdx, cIdx, segIdx, field2_count, field3_count,
                   sortedFields, ccArgs, ccRet, simulationSteps,
                   currentStepIndex, isPlaying, playbackSpeed>>

\* remap target that joins the side the node already sees
RemapToSeen(fields) == IF Includes(fields, 1) /\ Includes(fields, 2) THEN 2 ELSE 3

\* lines 280-285
RemapTo(fields) == IF Includes(fields, 1) /\ Includes(fields, 2) THEN 3 ELSE 2

\* a remap that reaches the pairs of every node
RemapAllNodes(acc, n, c, remapFrom, remapTo) ==
    [key \in DOMAIN acc |->
        IF acc[key][c + 1] = remapFrom
        THEN [acc[key] EXCEPT ![c + 1] = remapTo]
        ELSE acc[key]]

\* a remap that stops after the node's first particle
RemapFirstParticleOnly(acc, n, c, remapFrom, remapTo) ==
    [key \in DOMAIN acc |->
        IF /\ key[1] = n.id
           /\ Len(nodeToParticles[n.id]) > 0
           /\ nodeToParticles[n.id][1] = key[2]
           /\ acc[key][c + 1] = remapFrom
        THEN [acc[key] EXCEPT ![c + 1] = remapTo]
        ELSE acc[key]]

\* lines 288-293
Remap(acc, n, c, remapFrom, remapTo) ==
    [key \in DOMAIN acc |->
        IF /\ key[1] = n.id
           /\ \E k \in 1..Len(nodeToParticles[n.id]) : nodeToParticles[n.id][k] = key[2]
           /\ acc[key][c + 1] = remapFrom
        THEN [acc[key] EXCEPT ![c + 1] = remapTo]
        ELSE acc[key]]

\* lines 276-304
NodeNormalize ==
    /\ pc = "normalize"
    /\ LET n == nodes[nIdx]
           remapFrom == 1
           remapTo == RemapTo(sortedFields)
           acc == Remap(fieldAccumulator, n, crackIdx, remapFrom, remapTo)
       IN  /\ fieldAccumulator' = acc
           /\ steps' = Append(steps,
                 [stepId |-> stepCounter,
                  description |-> <<"Normalizing Node", n.id, remapFrom, remapTo>>,
                  highlightNodeId |-> n.id,
                  consistencyNodeId |-> n.id,
                  consistencyFields |-> sortedFields,
                  normalizationAction |-> <<remapFrom, remapTo>>,
                  currentFieldState |-> computeCombinedField(acc)])
    /\ stepCounter' = stepCounter + 1
    /\ NextNode
    /\ UNCHANGED <<nodes, particles, cracks, particleToNodes, nodeToParticles,
                   pIdx, cIdx, segIdx, field2_count, field3_count,
                   sortedFields, ccArgs, ccRet, simulationSteps,
                   currentStepIndex, isPlaying, playbackSpeed>>

\* a return that forgets the completion step
CompleteSilently ==
    /\ pc = "crack"
    /\ crackIdx >= Len(cracks)
    /\ pc' = "done"
    /\ UNCHANGED <<nodes, particles, cracks, particleToNodes, nodeToParticles,
                   fieldAccumulator, steps, stepCounter, crackIdx, pIdx, cIdx,
                   segIdx, field2_count, field3_count, nIdx, sortedFields,
                   ccArgs, ccRet, simulationSteps,
                   currentStepIndex, isPlaying, playbackSpeed>>

\* lines 309-315
Complete ==
    /\ pc = "crack"
    /\ crackIdx >= Len(cracks)
    /\ steps' = Append(steps,
          [stepId |-> stepCounter,
           description |-> <<"Computation Complete">>,
           currentFieldState |-> computeCombinedField(fieldAccumulator)])
    /\ stepCounter' = stepCounter + 1
    /\ pc' = "done"
    /\ UNCHANGED <<nodes, particles, cracks, particleToNodes, nodeToParticles,
                   fieldAccumulator, crackIdx, pIdx, cIdx, segIdx, field2_count,
                   field3_count, nIdx, sortedFields, ccArgs, ccRet, simulationSteps,
                   currentStepIndex, isPlaying, playbackSpeed>>

Next ==
    \/ BuildConnectivity
    \/ Initialize
    \/ CrackStart
    \/ SegmentTest
    \/ PairResult
    \/ ConsistencyStart
    \/ NodeCheck
    \/ NodeWarning
    \/ NodeNormalize
    \/ Complete

Spec == Init /\ [][Next]_vars

-----------------------------------------------------------------------------
(* Stand-alone calls of checkCrossing on every four points of the grid *)

IdleGen ==
    /\ nodes = <<>> /\ particles = <<>> /\ cracks = <<>>
    /\ particleToNodes = <<>> /\ nodeToParticles = <<>>
    /\ fieldAccumulator = <<>>
    /\ steps = <<>> /\ stepCounter = 0
    /\ pc = "idle"
    /\ crackIdx = 0 /\ pIdx = 1 /\ cIdx = 1 /\ segIdx = 0
    /\ field2_count = 0 /\ field3_count = 0
    /\ nIdx = 1
    /\ sortedFields = <<>>
    /\ simulationSteps = <<>>
    /\ currentStepIndex = 0 /\ isPlaying = FALSE /\ playbackSpeed = 500

InitCross ==
    /\ IdleGen
    /\ ccArgs \in [p : Grid, n : Grid, cStart : Grid, cEnd : Grid]
    /\ ccRet = <<>>

CallCheckCrossing ==
    /\ pc = "idle"
    /\ ccRet = <<>>
    /\ ccRet' = checkCrossing(ccArgs.p, ccArgs.n, ccArgs.cStart, ccArgs.cEnd)
    /\ UNCHANGED <<ccArgs, genVars>>

NextCross == CallCheckCrossing

SpecCross == InitCross /\ [][NextCross]_vars

-----------------------------------------------------------------------------
(* Connectivity-only runs: more nodes than a particle connects to, with ties *)

ConnNodePts == {Pt(0, 0), Pt(2, 0), Pt(0, 2), Pt(1, 1)}

ConnParticlePts == {Pt(1, 0), Pt(1, 1)}

InitConn ==
    /\ nodes \in {WithIds(s) : s \in SeqsUpTo(ConnNodePts, MaxConnNodes)}
    /\ particles \in {WithIds(s) : s \in SeqsUpTo(ConnParticlePts, MaxConnParticles)}
    /\ cracks = <<>>
    /\ particleToNodes = <<>>
    /\ nodeToParticles = <<>>
    /\ fieldAccumulator = <<>>
    /\ steps = <<>>
    /\ stepCounter = 0
    /\ pc = "connectivity"
    /\ crackIdx = 0
    /\ pIdx = 1 /\ cIdx = 1 /\ segIdx = 0
    /\ field2_count = 0 /\ field3_count = 0
    /\ nIdx = 1
    /\ sortedFields = <<>>
    /\ ccArgs = <<>>
    /\ ccRet = <<>>
    /\ simulationSteps = <<>>
    /\ currentStepIndex = 0 /\ isPlaying = FALSE /\ playbackSpeed = 500

NextConn == BuildConnectivity

SpecConn == InitConn /\ [][NextConn]_vars

-----------------------------------------------------------------------------
(* The same pair tested against a segment and against the segment reversed *)

InitReversal ==
    /\ IdleGen
    /\ ccArgs \in [p : Grid, n : Grid, cStart : Grid, cEnd : Grid]
    /\ ccRet = <<>>

CallForward ==
    /\ pc = "idle"
    /\ Len(ccRet) = 0
    /\ ccRet' = <<checkCrossing(ccArgs.p, ccArgs.n, ccArgs.cStart, ccArgs.cEnd)>>
    /\ UNCHANGED <<ccArgs, genVars>>

CallReversed ==
    /\ pc = "idle"
    /\ Len(ccRet) = 1
    /\ ccRet' = Append(ccRet,
                       checkCrossing(ccArgs.p, ccArgs.n, ccArgs.cEnd, ccArgs.cStart))
    /\ UNCHANGED <<ccArgs, genVars>>

NextReversal ==
    \/ CallForward
    \/ CallReversed

SpecReversal == InitReversal /\ [][NextReversal]_vars

-----------------------------------------------------------------------------
(* Runs on the preset the application starts with, and on a layout of five
   nodes, of which a particle connects to four *)

presets ==
    [case1 |->
        [nodes |-> <<[id |-> 0, x |-> 2, y |-> 2], [id |-> 1, x |-> 8, y |-> 2],
                     [id |-> 2, x |-> 2, y |-> 8], [id |-> 3, x |-> 8, y |-> 8]>>,
         particles |-> <<[id |-> 0, x |-> 5, y |-> 4], [id |-> 1, x |-> 5, y |-> 6]>>,
         cracks |-> <<[id |-> 0, points |-> <<Pt(1, 5), Pt(9, 5)>>]>>]]

WideNodes == <<Pt(1, 4), Pt(6, 1), Pt(0, 6), Pt(2, 6), Pt(1, 2)>>

MaxWideCracks == 1

InitExamples ==
    /\ \/ /\ nodes = presets.case1.nodes
          /\ particles = presets.case1.particles
          /\ cracks = presets.case1.cracks
       \/ /\ nodes = WithIds(WideNodes)
          /\ particles \in ParticleInputs
          /\ cracks \in {c \in CrackInputs : Len(c) <= MaxWideCracks}
    /\ particleToNodes = <<>>
    /\ nodeToParticles = <<>>
    /\ fieldAccumulator = <<>>
    /\ steps = <<>>
    /\ stepCounter = 0
    /\ pc = "connectivity"
    /\ crackIdx = 0
    /\ pIdx = 1 /\ cIdx = 1 /\ segIdx = 0
    /\ field2_count = 0 /\ field3_count = 0
    /\ nIdx = 1
    /\ sortedFields = <<>>
    /\ ccArgs = <<>>
    /\ ccRet = <<>>
    /\ simulationSteps = <<>>
    /\ currentStepIndex = 0 /\ isPlaying = FALSE /\ playbackSpeed = 500

SpecExamples == InitExamples /\ [][Next]_vars

-----------------------------------------------------------------------------
(* The caller keeps the trace of a finished call and calls again with the
   same arguments; every local of generateSimulationSteps is made anew *)

\* a second call that goes on counting steps where the first call stopped
CallAgainKeepingCounter ==
    /\ pc = "done"
    /\ simulationSteps = <<>>
    /\ simulationSteps' = steps
    /\ particleToNodes' = <<>>
    /\ nodeToParticles' = <<>>
    /\ fieldAccumulator' = <<>>
    /\ steps' = <<>>
    /\ pc' = "connectivity"
    /\ crackIdx' = 0
    /\ pIdx' = 1 /\ cIdx' = 1 /\ segIdx' = 0
    /\ field2_count' = 0 /\ field3_count' = 0
    /\ nIdx' = 1
    /\ sortedFields' = <<>>
    /\ UNCHANGED <<nodes, particles, cracks, stepCounter, ccArgs, ccRet,
                   currentStepIndex, isPlaying, playbackSpeed>>

CallAgain ==
    /\ pc = "done"
    /\ simulationSteps = <<>>
    /\ simulationSteps' = steps
    /\ particleToNodes' = <<>>
    /\ nodeToParticles' = <<>>
    /\ fieldAccumulator' = <<>>
    /\ steps' = <<>>
    /\ stepCounter' = 0
    /\ pc' = "connectivity"
    /\ crackIdx' = 0
    /\ pIdx' = 1 /\ cIdx' = 1 /\ segIdx' = 0
    /\ field2_count' = 0 /\ field3_count' = 0
    /\ nIdx' = 1
    /\ sortedFields' = <<>>
    /\ UNCHANGED <<nodes, particles, cracks, ccArgs, ccRet,
                   currentStepIndex, isPlaying, playbackSpeed>>

NextTwice ==
    \/ Next
    \/ CallAgain

SpecTwice == InitExamples /\ [][NextTwice]_vars

-----------------------------------------------------------------------------
(* Stand-alone calls of computeCombinedField on an accumulator of two pairs *)

MaxLabels == 3

LabelLists == UNION {[1..k -> {1, 2, 3}] : k \in 0..MaxLabels}

InitEncode ==
    /\ nodes = <<>> /\ particles = <<>> /\ cracks = <<>>
    /\ particleToNodes = <<>> /\ nodeToParticles = <<>>
    /\ \E a, b \in LabelLists :
          /\ Len(a) = Len(b)
          /\ fieldAccumulator = (<<0, 0>> :> a) @@ (<<1, 0>> :> b)
    /\ steps = <<>> /\ stepCounter = 0
    /\ pc = "idle"
    /\ crackIdx = 0 /\ pIdx = 1 /\ cIdx = 1 /\ segIdx = 0
    /\ field2_count = 0 /\ field3_count = 0
    /\ nIdx = 1
    /\ sortedFields = <<>>
    /\ simulationSteps = <<>>
    /\ currentStepIndex = 0 /\ isPlaying = FALSE /\ playbackSpeed = 500
    /\ ccArgs = <<>>
    /\ ccRet = <<>>

CallComputeCombinedField ==
    /\ pc = "idle"
    /\ ccRet = <<>>
    /\ ccRet' = <<computeCombinedField(fieldAccumulator)>>
    /\ UNCHANGED <<ccArgs, genVars>>

NextEncode == CallComputeCombinedField

SpecEncode == InitEncode /\ [][NextEncode]_vars

-----------------------------------------------------------------------------
(* A crack segment is split at a point on it and the trace is computed again;
   the coordinates are those of the trace runs times three, so that every
   segment has two grid points strictly inside it *)

Tripled(pts) == [i \in 1..Len(pts) |-> Pt(3 * pts[i].x, 3 * pts[i].y)]

MaxSplitCracks == 1

\* newPoints.splice(segmentIdx + 1, 0, pos)
Splice(points, segmentIdx, pos) ==
    LET k == Min(segmentIdx + 1, Len(points))
    IN  SubSeq(points, 1, k) \o <<pos>> \o SubSeq(points, k + 1, Len(points))

\* a split that puts the new point in front of the segment's start point
SplitCrackBefore(cs, id, segmentIdx, pos) ==
    [i \in 1..Len(cs) |->
        IF cs[i].id # id THEN cs[i]
        ELSE [cs[i] EXCEPT !.points = Splice(cs[i].points, segmentIdx - 1, pos)]]

\* prev.map(c => c.id !== id ? c : { ...c, points: newPoints })
SplitCrack(cs, id, segmentIdx, pos) ==
    [i \in 1..Len(cs) |->
        IF cs[i].id # id THEN cs[i]
        ELSE [cs[i] EXCEPT !.points = Splice(cs[i].points, segmentIdx, pos)]]

\* the grid points at one third and at two thirds of the segment (s, e)
InteriorPoints(s, e) ==
    {Pt(s.x + (k * (e.x - s.x)) \div 3, s.y + (k * (e.y - s.y)) \div 3) : k \in 1..2}

InitSplit ==
    /\ nodes = WithIds(Tripled(<<Pt(5, 2), Pt(1, 0)>>))
    /\ particles \in {WithIds(Tripled(Pick(ParticleList, S))) :
                        S \in SUBSET (1..Len(ParticleList))}
    /\ cracks \in {[i \in 1..Len(s) |-> [id |-> i - 1, points |-> Tripled(s[i])]] :
                     s \in SeqsUpTo(Polylines, MaxSplitCracks)}
    /\ particleToNodes = <<>>
    /\ nodeToParticles = <<>>
    /\ fieldAccumulator = <<>>
    /\ steps = <<>>
    /\ stepCounter = 0
    /\ pc = "connectivity"
    /\ crackIdx = 0
    /\ pIdx = 1 /\ cIdx = 1 /\ segIdx = 0
    /\ field2_count = 0 /\ field3_count = 0
    /\ nIdx = 1
    /\ sortedFields = <<>>
    /\ ccArgs = <<>>
    /\ ccRet = <<>>
    /\ simulationSteps = <<>>
    /\ currentStepIndex = 0 /\ isPlaying = FALSE /\ playbackSpeed = 500

\* the split of one segment after a finished run, and the entry of the run
\* on the split crack
SplitAndCallAgain ==
    /\ pc = "done"
    /\ simulationSteps = <<>>
    /\ \E c \in 1..Len(cracks) : \E segmentIdx \in 0..(Len(cracks[c].points) - 2) :
          \E pos \in InteriorPoints(cracks[c].points[segmentIdx + 1],
                                    cracks[c].points[segmentIdx + 2]) :
              cracks' = SplitCrack(cracks, cracks[c].id, segmentIdx, pos)
    /\ simulationSteps' = steps
    /\ particleToNodes' = <<>>
    /\ nodeToParticles' = <<>>
    /\ fieldAccumulator' = <<>>
    /\ steps' = <<>>
    /\ stepCounter' = 0
    /\ pc' = "connectivity"
    /\ crackIdx' = 0
    /\ pIdx' = 1 /\ cIdx' = 1 /\ segIdx' = 0
    /\ field2_count' = 0 /\ field3_count' = 0
    /\ nIdx' = 1
    /\ sortedFields' = <<>>
    /\ UNCHANGED <<nodes, particles, ccArgs, ccRet,
                   currentStepIndex, isPlaying, playbackSpeed>>

NextSplit ==
    \/ Next
    \/ SplitAndCallAgain

SpecSplit == InitSplit /\ [][NextSplit]_vars

-----------------------------------------------------------------------------
(* The App component: geometry, playback state, the memoized trace, the
   clamp effect, the playback timer and the edit handlers.  Every coordinate
   is twice the source's, so that 3.5 and 6.5 are the integers 7 and 13. *)

presetsDoubled ==
    [case1 |->
        [nodes |-> WithIds(<<Pt(4, 4), Pt(16, 4), Pt(4, 16), Pt(16, 16)>>),
         particles |-> WithIds(<<Pt(10, 8), Pt(10, 12)>>),
         cracks |-> <<[id |-> 0, points |-> <<Pt(2, 10), Pt(18, 10)>>]>>],
     case2 |->
        [nodes |-> WithIds(<<Pt(4, 4), Pt(10, 4), Pt(16, 4),
                             Pt(4, 10), Pt(10, 10), Pt(16, 10),
                             Pt(4, 16), Pt(10, 16), Pt(16, 16)>>),
         particles |-> WithIds(<<Pt(7, 7), Pt(13, 7), Pt(7, 13), Pt(13, 13)>>),
         cracks |-> <<[id |-> 0, points |-> <<Pt(2, 2), Pt(18, 18)>>]>>],
     case3 |->
        [nodes |-> WithIds(<<Pt(4, 4), Pt(10, 4), Pt(16, 4),
                             Pt(4, 10), Pt(10, 10), Pt(16, 10),
                             Pt(4, 16), Pt(10, 16), Pt(16, 16)>>),
         particles |-> WithIds(<<Pt(7, 7), Pt(13, 7), Pt(7, 13), Pt(13, 13)>>),
         cracks |-> <<[id |-> 0, points |-> <<Pt(0, 10), Pt(20, 10)>>],
                      [id |-> 1, points |-> <<Pt(10, 0), Pt(10, 20)>>]>>]]

PresetKeys == {"case1", "case2", "case3"}

MaxAppPoints == 3    \* a crack is split only while it has fewer points
DragIds == {0}       \* the node, the particle and the crack that are dragged
DragTargets == {Pt(16, 12)}     \* where a drag puts a point
SplitTargets == {Pt(10, 10)}    \* where a double click puts a new point
SpeedSliderValues == {50, 550}  \* positions of the speed slider

\* the first element of s that carries id (Array.prototype.find)
FirstWithId(s, id) ==
    s[CHOOSE i \in 1..Len(s) : s[i].id = id /\ \A j \in 1..(i - 1) : s[j].id # id]

\* lines 171-209: the label the segment loop and the cancellation give a pair
PairLabel(p, n, crack) ==
    LET segs == 1..(Len(crack.points) - 1)
        class(i) == checkCrossing(p, n, crack.points[i], crack.points[i + 1]).result
    IN  FinalField(Cardinality({i \in segs : class(i) = 2}),
                   Cardinality({i \in segs : class(i) = 3}))

\* the number of steps generateSimulationSteps pushes for one crack: the
\* header, one step per pair and segment, one result step per pair whose
\* label is not 1, the consistency header, and per node with particles the
\* "sees fields" step and the warning or the normalization step if any
CrackStepCount(ns, ps, p2n, n2p, crack) ==
    LET label(nid, pid) == PairLabel(FirstWithId(ps, pid), FirstWithId(ns, nid), crack)
        keys == PairKeys(ps, p2n)
        segments == IF Len(crack.points) > 1 THEN Len(crack.points) - 1 ELSE 0
        seen(nid) == {label(nid, n2p[nid][k]) : k \in 1..Len(n2p[nid])}
        nodeSteps(i) ==
            IF Len(n2p[ns[i].id]) = 0 THEN 0
            ELSE IF Cardinality(seen(ns[i].id)) = 3 THEN 2
            ELSE IF Cardinality(seen(ns[i].id)) = 2 /\ 1 \in seen(ns[i].id) THEN 2
            ELSE 1
        RECURSIVE sum(_)
        sum(i) == IF i = 0 THEN 0 ELSE nodeSteps(i) + sum(i - 1)
    IN  1 + Cardinality(keys) * segments
          + Cardinality({key \in keys : label(key[1], key[2]) # 1})
          + 1 + sum(Len(ns))

RECURSIVE StepCountFrom(_, _, _, _, _)
StepCountFrom(ns, ps, p2n, n2p, cs) ==
    IF cs = <<>> THEN 0
    ELSE CrackStepCount(ns, ps, p2n, n2p, Head(cs))
            + StepCountFrom(ns, ps, p2n, n2p, Tail(cs))

\* the length of the trace: the initialization step, the steps of the
\* cracks, the completion step
\* (conn ranges over a one-element set, which computes the two maps once)
StepCount(ns, ps, cs) ==
    CHOOSE total \in
        {1 + StepCountFrom(ns, ps, conn[1], conn[2], cs) + 1 :
            conn \in {<<BuildParticleToNodes(ns, ps), BuildNodeToParticles(ns, ps)>>}} :
        TRUE

\* prev.map(n => n.id === id ? { ...n, ...pos } : n)
MoveTo(list, id, pos) ==
    [i \in 1..Len(list) |->
        IF list[i].id = id THEN [list[i] EXCEPT !.x = pos.x, !.y = pos.y]
        ELSE list[i]]

\* the geometries the drags and the splits make of the presets: a dragged
\* point lies on a drag target, a point added by a split on a split target
\* or, once dragged, on a drag target
EditedGeometries ==
    UNION {
        LET pre == presetsDoubled[key]
            moved(list) ==
                {list} \cup {MoveTo(list, id, pos) : id \in DragIds, pos \in DragTargets}
            ends(c) == {<<c.points[1]>>} \cup {<<pos>> : pos \in DragTargets}
            tails(c) == {<<c.points[Len(c.points)]>>} \cup {<<pos>> : pos \in DragTargets}
            inner == UNION {[1..k -> SplitTargets \cup DragTargets] :
                               k \in 0..(MaxAppPoints - 2)}
            edited(c) ==
                IF c.id \in DragIds
                THEN {[c EXCEPT !.points = s \o m \o e] :
                         s \in ends(c), m \in inner, e \in tails(c)}
                ELSE {c}
            lists == {t \in [1..Len(pre.cracks) ->
                                UNION {edited(pre.cracks[i]) : i \in 1..Len(pre.cracks)}] :
                         \A i \in 1..Len(pre.cracks) : t[i] \in edited(pre.cracks[i])}
        IN  {[nodes |-> ns, particles |-> ps, cracks |-> cs] :
                ns \in moved(pre.nodes), ps \in moved(pre.particles), cs \in lists}
        : key \in PresetKeys}

\* StepCount of these geometries, computed once
KnownStepCount == [g \in EditedGeometries |-> StepCount(g.nodes, g.particles, g.cracks)]

\* the trace as the App uses it: its length and the steps' stepId fields
\* (stepId: stepCounter++ starts at 0)
StepIds(ns, ps, cs) ==
    LET g == [nodes |-> ns, particles |-> ps, cracks |-> cs]
        length == IF g \in DOMAIN KnownStepCount THEN KnownStepCount[g]
                  ELSE StepCount(ns, ps, cs)
    IN  [k \in 1..length |-> [stepId |-> k - 1]]

\* simulationSteps[currentStepIndex] || simulationSteps[0]
currentStep ==
    IF currentStepIndex + 1 \in DOMAIN simulationSteps
    THEN simulationSteps[currentStepIndex + 1]
    ELSE simulationSteps[1]

\* the variables of a call of generateSimulationSteps, which the App reads
\* only through the memoized trace
callVars == <<particleToNodes, nodeToParticles, fieldAccumulator, steps,
              stepCounter, pc, crackIdx, pIdx, cIdx, segIdx, field2_count,
              field3_count, nIdx, sortedFields, ccArgs, ccRet>>

InitApp ==
    /\ nodes = presetsDoubled.case1.nodes
    /\ particles = presetsDoubled.case1.particles
    /\ cracks = presetsDoubled.case1.cracks
    /\ currentStepIndex = 0
    /\ isPlaying = FALSE
    /\ playbackSpeed = 500
    /\ simulationSteps = StepIds(nodes, particles, cracks)
    /\ particleToNodes = <<>> /\ nodeToParticles = <<>>
    /\ fieldAccumulator = <<>>
    /\ steps = <<>> /\ stepCounter = 0
    /\ pc = "idle"
    /\ crackIdx = 0 /\ pIdx = 1 /\ cIdx = 1 /\ segIdx = 0
    /\ field2_count = 0 /\ field3_count = 0
    /\ nIdx = 1
    /\ sortedFields = <<>>
    /\ ccArgs = <<>>
    /\ ccRet = <<>>

\* a render has left the index outside the trace and its clamp effect has
\* not run yet; the effect runs before the next event is handled
ClampPending == currentStepIndex >= Len(simulationSteps)

Max(a, b) == IF a > b THEN a ELSE b

\* lines 89-93
ClampEffect ==
    /\ ClampPending
    /\ currentStepIndex' = Max(0, Len(simulationSteps) - 1)
    /\ UNCHANGED <<nodes, particles, cracks, simulationSteps, isPlaying,
                   playbackSpeed, callVars>>

\* a timer callback that compares with length instead of length - 1
TickPastEnd ==
    /\ isPlaying
    /\ ~ClampPending
    /\ IF currentStepIndex < Len(simulationSteps)
       THEN currentStepIndex' = currentStepIndex + 1 /\ UNCHANGED isPlaying
       ELSE isPlaying' = FALSE /\ UNCHANGED currentStepIndex
    /\ UNCHANGED <<nodes, particles, cracks, simulationSteps, playbackSpeed,
                   callVars>>

\* lines 95-107: the interval exists while isPlaying; one timer callback
Tick ==
    /\ isPlaying
    /\ ~ClampPending
    /\ IF currentStepIndex < Len(simulationSteps) - 1
       THEN currentStepIndex' = currentStepIndex + 1 /\ UNCHANGED isPlaying
       ELSE isPlaying' = FALSE /\ UNCHANGED currentStepIndex
    /\ UNCHANGED <<nodes, particles, cracks, simulationSteps, playbackSpeed,
                   callVars>>

\* line 204
Reset ==
    /\ ~ClampPending
    /\ isPlaying' = FALSE
    /\ currentStepIndex' = 0
    /\ UNCHANGED <<nodes, particles, cracks, simulationSteps, playbackSpeed,
                   callVars>>

\* line 207
SkipBack ==
    /\ ~ClampPending
    /\ isPlaying' = FALSE
    /\ currentStepIndex' = Max(0, currentStepIndex - 1)
    /\ UNCHANGED <<nodes, particles, cracks, simulationSteps, playbackSpeed,
                   callVars>>

\* line 210
TogglePlay ==
    /\ ~ClampPending
    /\ isPlaying' = ~isPlaying
    /\ UNCHANGED <<nodes, particles, cracks, simulationSteps, currentStepIndex,
                   playbackSpeed, callVars>>

\* a skip forward without Math.min
SkipForwardUnbounded ==
    /\ ~ClampPending
    /\ isPlaying' = FALSE
    /\ currentStepIndex' = currentStepIndex + 1
    /\ UNCHANGED <<nodes, particles, cracks, simulationSteps, playbackSpeed,
                   callVars>>

\* line 213
SkipForward ==
    /\ ~ClampPending
    /\ isPlaying' = FALSE
    /\ currentStepIndex' = Min(Len(simulationSteps) - 1, currentStepIndex + 1)
    /\ UNCHANGED <<nodes, particles, cracks, simulationSteps, playbackSpeed,
                   callVars>>

\* the value string of a range input at position n, as its decimal digits
RECURSIVE ValueString(_)
ValueString(n) ==
    IF n < 10 THEN <<n>> ELSE Append(ValueString(n \div 10), n % 10)

\* parseInt of a string of decimal digits
RECURSIVE parseInt(_)
parseInt(digits) ==
    IF Len(digits) = 0 THEN 0
    ELSE 10 * parseInt(SubSeq(digits, 1, Len(digits) - 1)) + digits[Len(digits)]

\* the slider positions tried: every SliderGrain-th one and the last one
SliderGrain == 10
SliderPositions(max) == {v \in 0..max : v % SliderGrain = 0 \/ v = max}

\* line 220: the range input offers the positions min..max, 0..length - 1
SliderMove ==
    /\ ~ClampPending
    /\ \E position \in SliderPositions(Len(simulationSteps) - 1) :
          currentStepIndex' = parseInt(ValueString(position))
    /\ isPlaying' = FALSE
    /\ UNCHANGED <<nodes, particles, cracks, simulationSteps, playbackSpeed,
                   callVars>>

\* line 226
SpeedMove ==
    /\ ~ClampPending
    /\ \E value \in SpeedSliderValues : playbackSpeed' = 1050 - value
    /\ UNCHANGED <<nodes, particles, cracks, simulationSteps, currentStepIndex,
                   isPlaying, callVars>>

\* lines 117-125
UpdateCrack(cs, id, pointIdx, pos) ==
    [i \in 1..Len(cs) |->
        IF cs[i].id # id THEN cs[i]
        ELSE [cs[i] EXCEPT !.points[pointIdx + 1] = pos]]

\* lines 109-111 and the render that follows; the Visualizer drags a node
\* it has drawn
handleUpdateNode ==
    /\ ~ClampPending
    /\ \E id \in DragIds \cap IdSet(nodes) : \E pos \in DragTargets :
          nodes' = MoveTo(nodes, id, pos)
    /\ simulationSteps' = StepIds(nodes', particles, cracks)
    /\ UNCHANGED <<particles, cracks, currentStepIndex, isPlaying, playbackSpeed,
                   callVars>>

\* lines 113-115 and the render that follows
handleUpdateParticle ==
    /\ ~ClampPending
    /\ \E id \in DragIds \cap IdSet(particles) : \E pos \in DragTargets :
          particles' = MoveTo(particles, id, pos)
    /\ simulationSteps' = StepIds(nodes, particles', cracks)
    /\ UNCHANGED <<nodes, cracks, currentStepIndex, isPlaying, playbackSpeed,
                   callVars>>

\* lines 117-125 and the render that follows; the Visualizer drags a point
\* of a crack it has drawn
handleUpdateCrack ==
    /\ ~ClampPending
    /\ \E c \in 1..Len(cracks) : \E pointIdx \in 0..(Len(cracks[c].points) - 1) :
          \E pos \in DragTargets :
              /\ cracks[c].id \in DragIds
              /\ cracks' = UpdateCrack(cracks, cracks[c].id, pointIdx, pos)
    /\ simulationSteps' = StepIds(nodes, particles, cracks')
    /\ UNCHANGED <<nodes, particles, currentStepIndex, isPlaying, playbackSpeed,
                   callVars>>

\* lines 127-135 and the render that follows, for the segment segmentIdx of
\* the c-th crack
handleSplitCrackAt(c, segmentIdx, pos) ==
    /\ ~ClampPending
    /\ cracks[c].id \in DragIds
    /\ Len(cracks[c].points) < MaxAppPoints
    /\ cracks' = SplitCrack(cracks, cracks[c].id, segmentIdx, pos)
    /\ simulationSteps' = StepIds(nodes, particles, cracks')
    /\ UNCHANGED <<nodes, particles, currentStepIndex, isPlaying, playbackSpeed,
                   callVars>>

\* the Visualizer splits a segment it has drawn
handleSplitCrack ==
    \E c \in 1..Len(cracks) : \E segmentIdx \in 0..(Len(cracks[c].points) - 2) :
        \E pos \in SplitTargets : handleSplitCrackAt(c, segmentIdx, pos)

\* lines 137-143 and the render that follows
loadPreset ==
    /\ ~ClampPending
    /\ \E key \in PresetKeys :
          /\ nodes' = presetsDoubled[key].nodes
          /\ particles' = presetsDoubled[key].particles
          /\ cracks' = presetsDoubled[key].cracks
    /\ currentStepIndex' = 0
    /\ isPlaying' = FALSE
    /\ simulationSteps' = StepIds(nodes', particles', cracks')
    /\ UNCHANGED <<playbackSpeed, callVars>>

NextApp ==
    \/ ClampEffect
    \/ Tick
    \/ Reset
    \/ SkipBack
    \/ TogglePlay
    \/ SkipForward
    \/ SliderMove
    \/ SpeedMove
    \/ handleUpdateNode
    \/ handleUpdateParticle
    \/ handleUpdateCrack
    \/ handleSplitCrack
    \/ loadPreset

SpecApp == InitApp /\ [][NextApp]_vars

\* playback left alone: the timer callbacks are the only events, on any
\* geometry the edits produce and from any step of its trace
InitPlayback ==
    /\ \E g \in EditedGeometries :
          /\ nodes = g.nodes
          /\ particles = g.particles
          /\ cracks = g.cracks
    /\ simulationSteps = StepIds(nodes, particles, cracks)
    /\ currentStepIndex \in 0..(Len(simulationSteps) - 1)
    /\ isPlaying = TRUE
    /\ playbackSpeed = 500
    /\ particleToNodes = <<>> /\ nodeToParticles = <<>>
    /\ fieldAccumulator = <<>>
    /\ steps = <<>> /\ stepCounter = 0
    /\ pc = "idle"
    /\ crackIdx = 0 /\ pIdx = 1 /\ cIdx = 1 /\ segIdx = 0
    /\ field2_count = 0 /\ field3_count = 0
    /\ nIdx = 1
    /\ sortedFields = <<>>
    /\ ccArgs = <<>>
    /\ ccRet = <<>>

NextPlayback == Tick

\* window.setInterval calls back again and again while the interval exists
SpecPlayback == InitPlayback /\ [][NextPlayback]_vars /\ WF_vars(Tick)

-----------------------------------------------------------------------------
(* Claims *)

\* twice the signed area of (a, b, c), written out on the coordinates
SignedArea(ax, ay, bx, by, cx, cy) == ax * (by - cy) + bx * (cy - ay) + cx * (ay - by)

C1_Areas ==
    LET p == ccArgs.p
        n == ccArgs.n
        s == ccArgs.cStart
        e == ccArgs.cEnd
    IN  [area1 |-> SignedArea(p.x, p.y, n.x, n.y, s.x, s.y),
         area2 |-> SignedArea(p.x, p.y, n.x, n.y, e.x, e.y),
         area3 |-> SignedArea(s.x, s.y, e.x, e.y, p.x, p.y),
         area4 |-> SignedArea(s.x, s.y, e.x, e.y, n.x, n.y)]

\* C1: checkCrossing(p, n, s, e) returns 2 exactly when area1 < 0, area2 >= 0,
\* area3 >= 0 and area4 < 0, returns 3 exactly when area1 >= 0, area2 < 0,
\* area3 < 0 and area4 >= 0, returns 0 in every other case, and hands back
\* the four signed areas of (p,n,s), (p,n,e), (s,e,p) and (s,e,n).
C1_CrossingClassification ==
    ccRet # <<>> =>
        LET a == C1_Areas
            above == a.area1 < 0 /\ a.area2 >= 0 /\ a.area3 >= 0 /\ a.area4 < 0
            below == a.area1 >= 0 /\ a.area2 < 0 /\ a.area3 < 0 /\ a.area4 >= 0
        IN  /\ ccRet.areas = a
            /\ (ccRet.result = 2) <=> above
            /\ (ccRet.result = 3) <=> below
            /\ (ccRet.result = 0) <=> (~above /\ ~below)
            /\ ccRet.result \in {0, 2, 3}

\* a call that classifies "above" on the boundary: area2 and area3 are zero
C1_Witness ==
    /\ ccRet # <<>>
    /\ ccRet.result = 2
    /\ ccRet.areas.area2 = 0
    /\ ccRet.areas.area3 = 0

Tag(k) == steps[k].description[1]

\* the label of pair key for the crack with 0-based index c
Label(acc, key, c) == acc[key][c + 1]

\* C2: when the segments of a crack have been tested for a pair with counts
\* f2 and f3, min(f2, f3) is taken off both, so one of the two becomes 0, and
\* the label written to the pair's slot for that crack is 2 iff the remaining
\* f2 is odd, 3 iff the remaining f2 is even and the remaining f3 is odd, and
\* 1 otherwise.
C2_CancellationLaw ==
    [][pc = "result" =>
        LET f2 == field2_count
            f3 == field3_count
            m == IF f2 < f3 THEN f2 ELSE f3
            g2 == f2 - m
            g3 == f3 - m
            written == Label(fieldAccumulator', <<CurNode.id, CurParticle.id>>, crackIdx)
        IN  /\ Cancel(f2, f3) = <<g2, g3>>
            /\ g2 = 0 \/ g3 = 0
            /\ (written = 2) <=> (g2 % 2 = 1)
            /\ (written = 3) <=> (g2 % 2 = 0 /\ g3 % 2 = 1)
            /\ (written = 1) <=> (g2 % 2 = 0 /\ g3 % 2 = 0)]_vars

\* a pair whose three segments counted f2 = 2 and f3 = 1 got the label 2
C2_Witness ==
    \E k \in 1..(Len(steps) - 1) :
        /\ Tag(k) = "Checking Node"
        /\ steps[k].segmentCounts = [f2 |-> 2, f3 |-> 1]
        /\ Tag(k + 1) = "Result Node"
        /\ steps[k + 1].crossingResult = 2

\* the pairs of node n: its connected particles, read off the accumulator keys
PairsOf(n) == {key \in DOMAIN fieldAccumulator : key[1] = n.id}

\* the labels the pairs of node n carry for the crack under process
LabelsAt(n) == {Label(fieldAccumulator, key, crackIdx) : key \in PairsOf(n)}

C3_Normalized(n, to) ==
    /\ \A key \in PairsOf(n) :
          Label(fieldAccumulator', key, crackIdx) =
              IF Label(fieldAccumulator, key, crackIdx) = 1 THEN to
              ELSE Label(fieldAccumulator, key, crackIdx)
    /\ Len(steps') = Len(steps) + 1
    /\ Last(steps').description[1] = "Normalizing Node"
    /\ Last(steps').consistencyNodeId = n.id
    /\ Last(steps').normalizationAction = <<1, to>>

\* C3: in the consistency pass of a crack, a node whose pairs carry exactly
\* the labels {1,2} gets a normalization step after which every pair that had
\* 1 has 3 and every pair that had 2 still has 2; with exactly {1,3} every
\* pair that had 1 has 2 and every pair that had 3 still has 3; with exactly
\* {2,3} no pair changes and no normalization step is emitted.
C3_RemapCorrect ==
    [][/\ (pc = "node" /\ LabelsAt(nodes[nIdx]) \in {{1, 2}, {1, 3}}) =>
              /\ pc' = "normalize"
              /\ nIdx' = nIdx /\ crackIdx' = crackIdx
              /\ fieldAccumulator' = fieldAccumulator
       /\ (pc = "normalize" /\ LabelsAt(nodes[nIdx]) = {1, 2}) =>
              C3_Normalized(nodes[nIdx], 3)
       /\ (pc = "normalize" /\ LabelsAt(nodes[nIdx]) = {1, 3}) =>
              C3_Normalized(nodes[nIdx], 2)
       /\ pc = "normalize" => LabelsAt(nodes[nIdx]) \in {{1, 2}, {1, 3}}
       /\ (pc = "node" /\ LabelsAt(nodes[nIdx]) = {2, 3}) =>
              /\ fieldAccumulator' = fieldAccumulator
              /\ pc' \notin {"normalize", "warning"}
              /\ Len(steps') = Len(steps) + 1
              /\ Last(steps').description[1] = "Node sees fields"]_vars

\* one trace shows a node with {2,3} left alone, a remap 1->3 and a remap 1->2
C3_Witness ==
    /\ \E k \in 1..Len(steps) :
          Tag(k) = "Node sees fields" /\ steps[k].consistencyFields = <<2, 3>>
    /\ \E k \in 1..Len(steps) :
          Tag(k) = "Normalizing Node" /\ steps[k].normalizationAction = <<1, 3>>
    /\ \E k \in 1..Len(steps) :
          Tag(k) = "Normalizing Node" /\ steps[k].normalizationAction = <<1, 2>>

\* C4: when the pairs of a node carry all three labels for the current crack,
\* the consistency pass changes no label, emits exactly one warning step for
\* that node and crack, emits no normalization step and moves on.
C4_ThreeWayConflict ==
    [][/\ (pc = "node" /\ LabelsAt(nodes[nIdx]) = {1, 2, 3}) =>
              /\ pc' = "warning"
              /\ nIdx' = nIdx /\ crackIdx' = crackIdx
              /\ fieldAccumulator' = fieldAccumulator
       /\ pc = "warning" =>
              /\ LabelsAt(nodes[nIdx]) = {1, 2, 3}
              /\ fieldAccumulator' = fieldAccumulator
              /\ Len(steps') = Len(steps) + 1
              /\ Last(steps').description = <<"WARNING", nodes[nIdx].id>>
              /\ Last(steps').consistencyNodeId = nodes[nIdx].id
              /\ ~ ("normalizationAction" \in DOMAIN Last(steps'))
              /\ \/ pc' = "node" /\ nIdx' = nIdx + 1 /\ crackIdx' = crackIdx
                 \/ pc' = "crack" /\ crackIdx' = crackIdx + 1]_vars

\* a finished run whose trace holds a warning step
C4_Witness ==
    /\ pc = "done"
    /\ \E k \in 1..Len(steps) :
          Tag(k) = "WARNING" /\ steps[k].consistencyFields = <<1, 2, 3>>

\* the connected (node id, particle id) pairs, read off particleToNodes
ConnectedPairs ==
    UNION {{<<particleToNodes[pid][j], pid>> : j \in 1..Len(particleToNodes[pid])} :
              pid \in DOMAIN particleToNodes}

AllSlots == {<<key, c>> : key \in DOMAIN fieldAccumulator, c \in 1..Len(cracks)}

\* C5: in every state of generateSimulationSteps every accumulator slot
\* (connected pair, crack index) holds 1, 2 or 3, and as long as no crack has
\* been processed every slot holds 1.
C5_LabelsInRange ==
    /\ steps # <<>> =>
          /\ DOMAIN fieldAccumulator = ConnectedPairs
          /\ \A key \in DOMAIN fieldAccumulator : Len(fieldAccumulator[key]) = Len(cracks)
    /\ \A sl \in AllSlots : fieldAccumulator[sl[1]][sl[2]] \in {1, 2, 3}
    /\ (\A k \in 1..Len(steps) : Tag(k) # "Processing Crack") =>
          \A sl \in AllSlots : fieldAccumulator[sl[1]][sl[2]] = 1

\* a finished run whose accumulator holds each of the three labels
C5_Witness ==
    /\ pc = "done"
    /\ \A v \in {1, 2, 3} : \E sl \in AllSlots : fieldAccumulator[sl[1]][sl[2]] = v

RECURSIVE C6_Encode(_, _)
\* the sum of labels[i + 1] * 3^i over the crack indices i = 0..k-1
C6_Encode(labels, k) ==
    IF k = 0 THEN 0 ELSE labels[k] * 3 ^ (k - 1) + C6_Encode(labels, k - 1)

C6_LastSnapshotIsAccumulator ==
    steps # <<>> =>
        /\ DOMAIN Last(steps).currentFieldState = ConnectedPairs
        /\ \A key \in ConnectedPairs :
              Last(steps).currentFieldState[key] =
                  C6_Encode(fieldAccumulator[key], Len(cracks))

\* C6: the snapshot of every step gives, for every connected pair, the sum of
\* label[i] * 3^i of the accumulator as it stands right after that step's
\* action (after the slot overwrite of a result step, after the remap of a
\* normalization step), and no later action alters a step already appended.
C6_SnapshotAfterAction ==
    [][/\ \A k \in 1..Len(steps) : k <= Len(steps') /\ steps'[k] = steps[k]
       /\ Len(steps') <= Len(steps) + 1
       /\ C6_LastSnapshotIsAccumulator']_vars

\* a result step and a normalization step of the second crack changed the
\* snapshot, and more steps followed
C6_Witness ==
    /\ pc = "done"
    /\ Len(cracks) = 2
    /\ \E k \in 2..Len(steps) :
          /\ Tag(k) = "Result Node"
          /\ steps[k].highlightCrackId = cracks[2].id
          /\ steps[k].currentFieldState # steps[k - 1].currentFieldState
    /\ \E k \in 2..Len(steps) :
          /\ Tag(k) = "Normalizing Node"
          /\ steps[k].currentFieldState # steps[k - 1].currentFieldState
          /\ \E key \in ConnectedPairs : steps[k].currentFieldState[key] > 3 + 3

\* C7: the step at position k of the trace (counted from 0) has stepId k.
C7_StepIdsArePositions ==
    /\ stepCounter = Len(steps)
    /\ \A k \in 1..Len(steps) : steps[k].stepId = k - 1

\* a finished run in which one pair got a result step and another pair none
C7_Witness ==
    /\ pc = "done"
    /\ \E k \in 1..(Len(steps) - 1) :
          Tag(k) = "Checking Node" /\ Tag(k + 1) = "Result Node"
    /\ \E k \in 1..(Len(steps) - 1) :
          /\ Tag(k) = "Checking Node" /\ Tag(k + 1) = "Checking Node"
          /\ steps[k].highlightSegmentIndex >= steps[k + 1].highlightSegmentIndex

\* the step kinds that may directly follow a step of kind a
C8_Successors(a) ==
    IF a = "Initialization" THEN {"Processing Crack", "Computation Complete"}
    ELSE IF a \in {"Processing Crack", "Checking Node", "Result Node"}
         THEN {"Checking Node", "Result Node", "Consistency Check Phase"}
    ELSE IF a = "Consistency Check Phase"
         THEN {"Node sees fields", "Processing Crack", "Computation Complete"}
    ELSE IF a = "Node sees fields"
         THEN {"Node sees fields", "WARNING", "Normalizing Node",
               "Processing Crack", "Computation Complete"}
    ELSE IF a \in {"WARNING", "Normalizing Node"}
         THEN {"Node sees fields", "Processing Crack", "Computation Complete"}
    ELSE {}

\* how many crack-start steps stand at positions 1..k
C8_CracksStarted(k) == Cardinality({h \in 1..k : Tag(h) = "Processing Crack"})

\* C8: the trace is one initialization step, then for each crack in input
\* order one crack-start step, the crossing and result steps of its pairs,
\* one consistency-phase-start step and, for each checked node, its
\* consistency step optionally followed by one warning or one normalization
\* step of that node (never both), then one completion step; the first step
\* is the initialization step, the last the completion step, and the steps of
\* a crack all come before those of the next crack.
C8_TraceShape ==
    /\ steps # <<>> => Tag(1) = "Initialization"
    /\ \A k \in 1..Len(steps) :
          /\ Tag(k) = "Initialization" => k = 1
          /\ Tag(k) = "Computation Complete" => k = Len(steps) /\ pc = "done"
          /\ k < Len(steps) => Tag(k + 1) \in C8_Successors(Tag(k))
          /\ Tag(k) \in {"Processing Crack", "Checking Node", "Result Node",
                         "Consistency Check Phase"} =>
                /\ C8_CracksStarted(k) \in 1..Len(cracks)
                /\ steps[k].highlightCrackId = cracks[C8_CracksStarted(k)].id
          /\ Tag(k) \in {"Processing Crack", "Consistency Check Phase"} =>
                steps[k].description[2] = cracks[C8_CracksStarted(k)].id + 1
          /\ Tag(k) \in {"WARNING", "Normalizing Node"} =>
                /\ Tag(k - 1) = "Node sees fields"
                /\ steps[k].consistencyNodeId = steps[k - 1].consistencyNodeId
    /\ pc = "done" =>
          /\ steps # <<>>
          /\ Tag(Len(steps)) = "Computation Complete"
          /\ C8_CracksStarted(Len(steps)) = Len(cracks)
          /\ Cardinality({k \in 1..Len(steps) : Tag(k) = "Consistency Check Phase"})
                = Len(cracks)

\* a finished run over two cracks with crossing, result, consistency, warning
\* and normalization steps
C8_Witness ==
    /\ pc = "done"
    /\ Len(cracks) = 2
    /\ \A t \in {"Checking Node", "Result Node", "Node sees fields", "WARNING",
                 "Normalizing Node"} :
          \E k \in 1..Len(steps) : Tag(k) = t

\* the encoding of a list of n labels that are all 1
RECURSIVE C9_AllOnes(_)
C9_AllOnes(n) == IF n = 0 THEN 0 ELSE 3 * C9_AllOnes(n - 1) + 1

\* C9: in the first step of the trace the combined field of every connected
\* (node, particle) pair is the encoding of the all-1 label list, the sum of
\* 3^i over all crack indices i.
C9_FirstStepAllOnes ==
    steps # <<>> =>
        /\ DOMAIN steps[1].currentFieldState = ConnectedPairs
        /\ \A key \in ConnectedPairs :
              steps[1].currentFieldState[key] = C9_AllOnes(Len(cracks))

\* a first step over two cracks and several connected pairs
C9_Witness ==
    /\ steps # <<>>
    /\ Len(cracks) = 2
    /\ Cardinality(ConnectedPairs) >= 4
    /\ \A key \in ConnectedPairs : steps[1].currentFieldState[key] = 4

C10_Listed(seq, v) == \E k \in 1..Len(seq) : seq[k] = v

\* C10: every particle is connected to exactly min(4, number of nodes)
\* distinct nodes; no unconnected node is nearer (squared Euclidean distance)
\* than a connected one; of two nodes at equal distance the one earlier in
\* the input is taken first; and particle p is listed at node n iff node n is
\* listed at particle p.
C10_NearestFour ==
    pc = "init" =>
        /\ DOMAIN particleToNodes = {particles[i].id : i \in 1..Len(particles)}
        /\ DOMAIN nodeToParticles = {nodes[i].id : i \in 1..Len(nodes)}
        /\ \A pi \in 1..Len(particles) :
              LET p == particles[pi]
                  conn == particleToNodes[p.id]
                  d(i) == (p.x - nodes[i].x) * (p.x - nodes[i].x)
                            + (p.y - nodes[i].y) * (p.y - nodes[i].y)
              IN  /\ Len(conn) = IF Len(nodes) < 4 THEN Len(nodes) ELSE 4
                  /\ \A a, b \in 1..Len(conn) : a # b => conn[a] # conn[b]
                  /\ \A a \in 1..Len(conn) : \E i \in 1..Len(nodes) : nodes[i].id = conn[a]
                  /\ \A i, j \in 1..Len(nodes) :
                        (C10_Listed(conn, nodes[i].id) /\ ~C10_Listed(conn, nodes[j].id)) =>
                            /\ d(i) <= d(j)
                            /\ d(i) = d(j) => i < j
                  /\ \A i \in 1..Len(nodes) :
                        C10_Listed(conn, nodes[i].id) <=>
                            C10_Listed(nodeToParticles[nodes[i].id], p.id)

\* five nodes, and a particle for which a connected and an unconnected node
\* are at the same distance
C10_Witness ==
    /\ pc = "init"
    /\ Len(nodes) = 5
    /\ \E pi \in 1..Len(particles) : \E i, j \in 1..Len(nodes) :
          /\ C10_Listed(particleToNodes[particles[pi].id], nodes[i].id)
          /\ ~C10_Listed(particleToNodes[particles[pi].id], nodes[j].id)
          /\ distSq(particles[pi], nodes[i]) = distSq(particles[pi], nodes[j])
          /\ nodes[i].x # nodes[j].x

-----------------------------------------------------------------------------

\* C11 as stated: for all points, a pair classified 2 against (s, e) is
\* classified 3 against (e, s), and a pair classified 3 is classified 2.
C11_ReversalAllPoints ==
    Len(ccRet) = 2 =>
        /\ ccRet[1].result = 2 => ccRet[2].result = 3
        /\ ccRet[1].result = 3 => ccRet[2].result = 2

\* C11: reversing the segment turns classification 2 into 3 when the particle
\* is off the line through the segment (area3 # 0), and turns 3 into 2 when
\* the node is off that line (area4 # 0).
C11_ReversalOffTheLine ==
    Len(ccRet) = 2 =>
        LET p == ccArgs.p
            n == ccArgs.n
            s == ccArgs.cStart
            e == ccArgs.cEnd
            area3 == SignedArea(s.x, s.y, e.x, e.y, p.x, p.y)
            area4 == SignedArea(s.x, s.y, e.x, e.y, n.x, n.y)
        IN  /\ (ccRet[1].result = 2 /\ area3 # 0) => ccRet[2].result = 3
            /\ (ccRet[1].result = 3 /\ area4 # 0) => ccRet[2].result = 2

\* both calls made, 2 one way and 3 the other, with the segment's end on the
\* line through particle and node (area2 = 0)
C11_Witness ==
    /\ Len(ccRet) = 2
    /\ ccRet[1].result = 2
    /\ ccRet[2].result = 3
    /\ ccRet[1].areas.area2 = 0

-----------------------------------------------------------------------------
(* The end-to-end example: nodes (2,2), (8,2), (2,8), (8,8), particles (5,4)
   and (5,6), one crack (1,5) -> (9,5) *)

ExampleRun ==
    /\ nodes = <<[id |-> 0, x |-> 2, y |-> 2], [id |-> 1, x |-> 8, y |-> 2],
                 [id |-> 2, x |-> 2, y |-> 8], [id |-> 3, x |-> 8, y |-> 8]>>
    /\ particles = <<[id |-> 0, x |-> 5, y |-> 4], [id |-> 1, x |-> 5, y |-> 6]>>
    /\ cracks = <<[id |-> 0, points |-> <<[x |-> 1, y |-> 5], [x |-> 9, y |-> 5]>>]>>

\* the positions of the crossing steps of node n and particle p
CrossingSteps(n, p) ==
    {k \in 1..Len(steps) :
        /\ Tag(k) = "Checking Node"
        /\ steps[k].highlightNodeId = n.id
        /\ steps[k].highlightParticleId = p.id}

\* C12 as stated: in the example the crossing test yields 3 for particle
\* (5,4) with each of the four nodes and 2 for particle (5,6) with each of
\* the four nodes.
C12_AllPairsCross ==
    (pc = "done" /\ ExampleRun) =>
        \A i \in 1..Len(nodes), j \in 1..Len(particles) :
            /\ CrossingSteps(nodes[i], particles[j]) # {}
            /\ \A k \in CrossingSteps(nodes[i], particles[j]) :
                  steps[k].crossingResult = IF particles[j].y = 4 THEN 3 ELSE 2

\* C12: in the example every pair is tested once against the single segment;
\* the test yields 3 for particle (5,4) with the nodes (2,8) and (8,8) across
\* the crack and 0 with the nodes (2,2) and (8,2) on its own side, and it
\* yields 2 for particle (5,6) with (2,2) and (8,2) and 0 with (2,8) and (8,8).
C12_OppositeSidesCross ==
    (pc = "done" /\ ExampleRun) =>
        \A i \in 1..Len(nodes), j \in 1..Len(particles) :
            /\ Cardinality(CrossingSteps(nodes[i], particles[j])) = 1
            /\ \A k \in CrossingSteps(nodes[i], particles[j]) :
                  /\ steps[k].highlightSegmentIndex = 0
                  /\ steps[k].crossingResult =
                        IF particles[j].y = 4
                        THEN (IF nodes[i].y = 8 THEN 3 ELSE 0)
                        ELSE (IF nodes[i].y = 2 THEN 2 ELSE 0)

\* the example has run to its end, with tests that yielded 3, 2 and 0
C12_Witness ==
    /\ pc = "done"
    /\ ExampleRun
    /\ \A r \in {0, 2, 3} :
          \E k \in 1..Len(steps) : Tag(k) = "Checking Node" /\ steps[k].crossingResult = r

\* the positions of the consistency steps of node n
ConsistencySteps(n) ==
    {k \in 1..Len(steps) : Tag(k) = "Node sees fields" /\ steps[k].consistencyNodeId = n.id}

\* C13 as stated: in the example the consistency step of each of the four
\* nodes reports the labels {2,3}, and the trace has no normalization step
\* and no warning step.
C13_NodesSeeTwoAndThree ==
    (pc = "done" /\ ExampleRun) =>
        /\ \A i \in 1..Len(nodes) :
              /\ ConsistencySteps(nodes[i]) # {}
              /\ \A k \in ConsistencySteps(nodes[i]) : steps[k].consistencyFields = <<2, 3>>
        /\ \A k \in 1..Len(steps) : Tag(k) \notin {"Normalizing Node", "WARNING"}

\* C13: in the example each of the four nodes has one consistency step; for
\* the nodes (2,2) and (8,2) it reports the labels 1, 2 and is followed at
\* once by the normalization step 1 -> 3 of that node, for the nodes (2,8)
\* and (8,8) it reports 1, 3 and is followed by the normalization step 1 -> 2;
\* the trace has four normalization steps and no warning step.
C13_NodesSeeOneAndCrossed ==
    (pc = "done" /\ ExampleRun) =>
        /\ \A i \in 1..Len(nodes) :
              /\ Cardinality(ConsistencySteps(nodes[i])) = 1
              /\ \A k \in ConsistencySteps(nodes[i]) :
                    /\ steps[k].consistencyFields =
                          IF nodes[i].y = 2 THEN <<1, 2>> ELSE <<1, 3>>
                    /\ Tag(k + 1) = "Normalizing Node"
                    /\ steps[k + 1].consistencyNodeId = nodes[i].id
                    /\ steps[k + 1].normalizationAction =
                          IF nodes[i].y = 2 THEN <<1, 3>> ELSE <<1, 2>>
        /\ Cardinality({k \in 1..Len(steps) : Tag(k) = "Normalizing Node"}) = 4
        /\ \A k \in 1..Len(steps) : Tag(k) # "WARNING"

\* the example has run to its end, with a consistency step and a
\* normalization step of the last node (8,8)
C13_Witness ==
    /\ pc = "done"
    /\ ExampleRun
    /\ \E k \in 1..(Len(steps) - 1) :
          /\ Tag(k) = "Node sees fields"
          /\ Tag(k + 1) = "Normalizing Node"
          /\ steps[k].consistencyNodeId = nodes[4].id

\* C14: in the example both particles are connected to all four nodes, and
\* the completion step shows 3 for every pair of particle (5,4) and 2 for
\* every pair of particle (5,6).
C14_ExampleFinalLabels ==
    (pc = "done" /\ ExampleRun) =>
        /\ \A j \in 1..Len(particles) :
              {particleToNodes[particles[j].id][h] :
                  h \in 1..Len(particleToNodes[particles[j].id])}
                = {nodes[i].id : i \in 1..Len(nodes)}
        /\ Tag(Len(steps)) = "Computation Complete"
        /\ DOMAIN Last(steps).currentFieldState
              = {<<nodes[i].id, particles[j].id>> :
                    i \in 1..Len(nodes), j \in 1..Len(particles)}
        /\ \A i \in 1..Len(nodes), j \in 1..Len(particles) :
              Last(steps).currentFieldState[<<nodes[i].id, particles[j].id>>]
                = IF particles[j].y = 4 THEN 3 ELSE 2

\* the completion step of the example, reached through normalization steps
C14_Witness ==
    /\ pc = "done"
    /\ ExampleRun
    /\ Tag(Len(steps)) = "Computation Complete"
    /\ \E k \in 1..Len(steps) : Tag(k) = "Normalizing Node"
    /\ Cardinality(DOMAIN Last(steps).currentFieldState) = 8

-----------------------------------------------------------------------------

\* C15: a call with a crack of fewer than 2 points fails and returns no trace,
\* so a run on such an input never reaches its return.
C15_ShortCrackRejected ==
    (\E c \in 1..Len(cracks) : Len(cracks[c].points) < 2) => pc # "done"

\* C16 as stated: with no nodes or no particles, for any cracks, the returned
\* trace is exactly the initialization step and the completion step.
C16_TwoStepsOnly ==
    (pc = "done" /\ (Len(nodes) = 0 \/ Len(particles) = 0)) =>
        /\ Len(steps) = 2
        /\ Tag(1) = "Initialization"
        /\ Tag(2) = "Computation Complete"

\* C16: with no nodes or no particles the run returns a trace made of the
\* initialization step, then for each crack in input order its crack-start
\* step and its consistency-phase-start step, then the completion step; it
\* has no crossing, result, node-consistency, warning or normalization step,
\* and every snapshot is empty.
C16_HeadersOnly ==
    (pc = "done" /\ (Len(nodes) = 0 \/ Len(particles) = 0)) =>
        /\ Len(steps) = 2 + 2 * Len(cracks)
        /\ Tag(1) = "Initialization"
        /\ Tag(Len(steps)) = "Computation Complete"
        /\ \A c \in 1..Len(cracks) :
              /\ Tag(2 * c) = "Processing Crack"
              /\ steps[2 * c].highlightCrackId = cracks[c].id
              /\ Tag(2 * c + 1) = "Consistency Check Phase"
              /\ steps[2 * c + 1].highlightCrackId = cracks[c].id
        /\ \A k \in 1..Len(steps) : DOMAIN steps[k].currentFieldState = {}

\* a returned run over two nodes, no particle and two cracks
C16_Witness ==
    /\ pc = "done"
    /\ Len(cracks) = 2
    /\ Len(steps) = 6
    /\ Len(nodes) = 2
    /\ Len(particles) = 0

-----------------------------------------------------------------------------

-----------------------------------------------------------------------------

\* the crossing tests a run has to make: crack position c, particle position
\* j, position h in the particle's list of connected nodes, segment index i
C18_Tests ==
    {t \in (1..Len(cracks)) \X (1..Len(particles)) \X (1..Len(nodes)) \X (0..MaxPoints) :
        /\ t[3] <= Len(particleToNodes[particles[t[2]].id])
        /\ t[4] <= Len(cracks[t[1]].points) - 2}

\* the nested order: crack, then particle, then connected node, then segment
C18_Earlier(t, u) ==
    \/ t[1] < u[1]
    \/ t[1] = u[1] /\ t[2] < u[2]
    \/ t[1] = u[1] /\ t[2] = u[2] /\ t[3] < u[3]
    \/ t[1] = u[1] /\ t[2] = u[2] /\ t[3] = u[3] /\ t[4] < u[4]

\* the classification of particle p and node n against the segment (s, e)
C18_Class(p, n, s, e) ==
    LET area1 == SignedArea(p.x, p.y, n.x, n.y, s.x, s.y)
        area2 == SignedArea(p.x, p.y, n.x, n.y, e.x, e.y)
        area3 == SignedArea(s.x, s.y, e.x, e.y, p.x, p.y)
        area4 == SignedArea(s.x, s.y, e.x, e.y, n.x, n.y)
    IN  IF area1 < 0 /\ area2 >= 0 /\ area3 >= 0 /\ area4 < 0 THEN 2
        ELSE IF area1 >= 0 /\ area2 < 0 /\ area3 < 0 /\ area4 >= 0 THEN 3
        ELSE 0

\* step st is the crossing step of test t
C18_StepOf(st, t) ==
    LET crack == cracks[t[1]]
        p == particles[t[2]]
        n == FindNode(particleToNodes[p.id][t[3]])
        class(i) == C18_Class(p, n, crack.points[i + 1], crack.points[i + 2])
    IN  /\ st.description[1] = "Checking Node"
        /\ st.highlightCrackId = crack.id
        /\ st.highlightParticleId = p.id
        /\ st.highlightNodeId = n.id
        /\ st.highlightSegmentIndex = t[4]
        /\ st.crossingResult = class(t[4])
        /\ st.segmentCounts.f2 = Cardinality({i \in 0..t[4] : class(i) = 2})
        /\ st.segmentCounts.f3 = Cardinality({i \in 0..t[4] : class(i) = 3})

C18_LastCrossing(trace) ==
    LET at == {k \in 1..Len(trace) : trace[k].description[1] = "Checking Node"}
    IN  IF at = {} THEN 0 ELSE CHOOSE k \in at : \A h \in at : h <= k

\* C18: the crossing steps are appended one per crack, particle, connected
\* node (nearest first) and segment, in that nested order: the first one
\* belongs to the first test, each later one to the test that comes next
\* after its predecessor's, and the run returns after the last test's step;
\* each step carries the classification of its pair and segment and the
\* numbers of segments 0..i classified 2 and 3, before any cancellation.
C18_CrossingStepsInOrder ==
    [][/\ (Len(steps') = Len(steps) + 1
             /\ Last(steps').description[1] = "Checking Node") =>
          \E t \in C18_Tests :
              /\ C18_StepOf(Last(steps'), t)
              /\ IF C18_LastCrossing(steps) = 0
                 THEN \A u \in C18_Tests : ~C18_Earlier(u, t)
                 ELSE \E t0 \in C18_Tests :
                         /\ C18_StepOf(steps[C18_LastCrossing(steps)], t0)
                         /\ C18_Earlier(t0, t)
                         /\ \A u \in C18_Tests :
                               ~(C18_Earlier(t0, u) /\ C18_Earlier(u, t))
       /\ pc' = "done" =>
             IF C18_Tests = {}
             THEN C18_LastCrossing(steps') = 0
             ELSE /\ C18_LastCrossing(steps') # 0
                  /\ \E t \in C18_Tests :
                        /\ C18_StepOf(steps'[C18_LastCrossing(steps')], t)
                        /\ \A u \in C18_Tests : ~C18_Earlier(t, u)]_vars

\* a returned run over two cracks and three particles in which a pair's third
\* segment step counts f2 = 1 and f3 = 2, and the nearest node of a particle
\* is not the first node of the input
C18_Witness ==
    /\ pc = "done"
    /\ Len(cracks) = 2
    /\ Len(particles) = 3
    /\ \E k \in 1..Len(steps) :
          /\ Tag(k) = "Checking Node"
          /\ steps[k].highlightSegmentIndex = 2
          /\ steps[k].segmentCounts = [f2 |-> 1, f3 |-> 2]
    /\ \E j \in 1..Len(particles) :
          /\ Len(nodes) = 2
          /\ particleToNodes[particles[j].id][1] = nodes[2].id

-----------------------------------------------------------------------------

\* C19: when the segments of a crack have been tested for a pair, a result
\* step of the pair is appended iff the final label differs from the label
\* the pair held for that crack or is not 1; an appended result step stands
\* right after the pair's last crossing step, so before any crossing step of
\* a later pair, and carries the final label; appended or not, the pair's
\* slot for the crack holds the final label afterwards. No other point of the
\* run appends a result step.
C19_ResultStepRule ==
    [][/\ pc = "result" =>
            LET n == CurNode
                p == CurParticle
                crack == CurCrack
                m == IF field2_count < field3_count THEN field2_count ELSE field3_count
                g2 == field2_count - m
                g3 == field3_count - m
                final == IF g2 % 2 = 1 THEN 2 ELSE IF g3 % 2 = 1 THEN 3 ELSE 1
                previous == Label(fieldAccumulator, <<n.id, p.id>>, crackIdx)
            IN  /\ Label(fieldAccumulator', <<n.id, p.id>>, crackIdx) = final
                /\ IF previous # final \/ final # 1
                   THEN /\ Len(steps') = Len(steps) + 1
                        /\ SubSeq(steps', 1, Len(steps)) = steps
                        /\ Last(steps').description[1] = "Result Node"
                        /\ Last(steps').highlightNodeId = n.id
                        /\ Last(steps').highlightParticleId = p.id
                        /\ Last(steps').highlightCrackId = crack.id
                        /\ Last(steps').crossingResult = final
                        /\ Tag(Len(steps)) = "Checking Node"
                        /\ Last(steps).highlightNodeId = n.id
                        /\ Last(steps).highlightParticleId = p.id
                        /\ Last(steps).highlightCrackId = crack.id
                        /\ Last(steps).highlightSegmentIndex = Len(crack.points) - 2
                   ELSE steps' = steps
       /\ (Len(steps') > Len(steps) /\ Last(steps').description[1] = "Result Node") =>
             pc = "result"]_vars

\* a returned run in which a pair with one segment counted 2 and one counted
\* 3 got no result step, and another pair got a result step with label 3
C19_Witness ==
    /\ pc = "done"
    /\ \E k \in 1..(Len(steps) - 1) :
          /\ Tag(k) = "Checking Node"
          /\ steps[k].segmentCounts = [f2 |-> 1, f3 |-> 1]
          /\ Tag(k + 1) # "Result Node"
          /\ Tag(k + 1) # "Checking Node"
    /\ \E k \in 1..Len(steps) : Tag(k) = "Result Node" /\ steps[k].crossingResult = 3

-----------------------------------------------------------------------------

\* the particles connected to node n, read off the particles' node lists
C20_ParticlesOf(n) ==
    {pid \in DOMAIN particleToNodes :
        \E h \in 1..Len(particleToNodes[pid]) : particleToNodes[pid][h] = n.id}

\* the ids of the nodes that have a connected particle, in input order
C20_NodesToCheck ==
    LET at == {i \in 1..Len(nodes) : C20_ParticlesOf(nodes[i]) # {}}
    IN  [m \in 1..Cardinality(at) |->
            nodes[CHOOSE i \in at : Cardinality({h \in at : h < i}) = m - 1].id]

\* the position after the last step of the consistency pass that starts at s
C20_PassEnd(trace, s) ==
    LET later == {k \in (s + 1)..Len(trace) :
                     trace[k].description[1] \in {"Processing Crack", "Computation Complete"}}
    IN  IF later = {} THEN Len(trace) + 1 ELSE CHOOSE k \in later : \A h \in later : k <= h

\* in every consistency pass of the trace the consistency steps name the
\* nodes to check in input order, all of them once the pass is over
C20_PassesInNodeOrder(trace) ==
    \A s \in 1..Len(trace) :
        trace[s].description[1] = "Consistency Check Phase" =>
            LET e == C20_PassEnd(trace, s)
                at == {k \in (s + 1)..(e - 1) : trace[k].description[1] = "Node sees fields"}
            IN  /\ Cardinality(at) <= Len(C20_NodesToCheck)
                /\ e <= Len(trace) => Cardinality(at) = Len(C20_NodesToCheck)
                /\ \A k \in at :
                      trace[k].consistencyNodeId =
                          C20_NodesToCheck[Cardinality({h \in at : h < k}) + 1]

\* C20: in each crack's consistency pass one consistency step is appended for
\* every node that has a connected particle, in node input order, and none
\* for a node without connected particle; the label list of the step is
\* strictly ascending and holds exactly the labels that the node's pairs have
\* for the current crack when the node is checked.
C20_ConsistencySteps ==
    [][/\ pc = "node" =>
            LET n == nodes[nIdx]
                labels == {Label(fieldAccumulator, <<n.id, pid>>, crackIdx) :
                              pid \in C20_ParticlesOf(n)}
            IN  IF C20_ParticlesOf(n) = {}
                THEN steps' = steps
                ELSE /\ Len(steps') = Len(steps) + 1
                     /\ SubSeq(steps', 1, Len(steps)) = steps
                     /\ Last(steps').description[1] = "Node sees fields"
                     /\ Last(steps').consistencyNodeId = n.id
                     /\ LET list == Last(steps').consistencyFields
                        IN  /\ \A a, b \in 1..Len(list) : a < b => list[a] < list[b]
                            /\ {list[a] : a \in 1..Len(list)} = labels
       /\ (steps' # <<>> /\ particleToNodes' # <<>>) => C20_PassesInNodeOrder(steps')]_vars

\* a returned run on five nodes: a node before the last has no connected
\* particle and gets no consistency step, the node after it gets one, and a
\* node's step reports the two labels 1, 3
C20_Witness ==
    /\ pc = "done"
    /\ Len(nodes) = 5
    /\ \E i \in 1..(Len(nodes) - 1) :
          /\ C20_ParticlesOf(nodes[i]) = {}
          /\ \A k \in 1..Len(steps) :
                Tag(k) = "Node sees fields" => steps[k].consistencyNodeId # nodes[i].id
          /\ \E k \in 1..Len(steps) :
                Tag(k) = "Node sees fields" /\ steps[k].consistencyNodeId = nodes[i + 1].id
    /\ \E k \in 1..Len(steps) :
          Tag(k) = "Node sees fields" /\ steps[k].consistencyFields = <<1, 3>>

-----------------------------------------------------------------------------

RECURSIVE C21_LabelAt(_, _)
\* the label for the crack with 0-based index c read off a combined value
\* that was summed from labels in 1..3
C21_LabelAt(v, c) ==
    LET d == ((v - 1) % 3) + 1
    IN  IF c = 0 THEN d ELSE C21_LabelAt((v - d) \div 3, c - 1)

\* how many crack-start steps the trace holds
C21_Started(trace) ==
    Cardinality({h \in 1..Len(trace) : trace[h].description[1] = "Processing Crack"})

\* C21: the snapshot of a step differs from that of the step before it only
\* if the step is a result step or a normalization step; a result step of
\* pair (n, p) for crack c changes no slot but (n, p, c), a normalization step
\* of node n in the pass of crack c changes only slots (n, *, c); so the slots
\* of a crack whose pass has not started hold 1.
C21_SnapshotFrame ==
    [][(Len(steps') = Len(steps) + 1 /\ steps # <<>>) =>
          LET before == Last(steps).currentFieldState
              after == Last(steps').currentFieldState
              st == Last(steps')
              kind == st.description[1]
              current == C21_Started(steps') - 1
          IN  /\ DOMAIN after = DOMAIN before
              /\ after # before => kind \in {"Result Node", "Normalizing Node"}
              /\ \A key \in DOMAIN after : \A c \in 0..(Len(cracks) - 1) :
                    /\ C21_LabelAt(after[key], c) # C21_LabelAt(before[key], c) =>
                          \/ /\ kind = "Result Node"
                             /\ key = <<st.highlightNodeId, st.highlightParticleId>>
                             /\ cracks[c + 1].id = st.highlightCrackId
                             /\ c = current
                          \/ /\ kind = "Normalizing Node"
                             /\ key[1] = st.consistencyNodeId
                             /\ c = current
                    /\ c > current => C21_LabelAt(after[key], c) = 1]_vars

\* a returned run over two cracks in which a result step and a normalization
\* step of the second crack changed the snapshot while a slot of the first
\* crack kept a label other than 1
C21_Witness ==
    /\ pc = "done"
    /\ Len(cracks) = 2
    /\ \E k \in 2..Len(steps) : \E key \in DOMAIN steps[k].currentFieldState :
          /\ Tag(k) = "Normalizing Node"
          /\ steps[k].currentFieldState # steps[k - 1].currentFieldState
          /\ C21_Started(SubSeq(steps, 1, k)) = 2
          /\ C21_LabelAt(steps[k].currentFieldState[key], 0) # 1
          /\ key[1] # steps[k].consistencyNodeId
    /\ \E k \in 2..Len(steps) :
          /\ Tag(k) = "Result Node"
          /\ steps[k].highlightCrackId = cracks[2].id

-----------------------------------------------------------------------------

\* the labels that the pairs of the node with id nid hold for the crack with
\* 0-based index c in the snapshot snap
C22_LabelsIn(snap, nid, c) ==
    {C21_LabelAt(snap[key], c) : key \in {k \in DOMAIN snap : k[1] = nid}}

\* C22: in the completion step no node holds, for any crack, exactly the
\* labels {1,2} or exactly {1,3}: a node with a pair at 2 or 3 has a pair at
\* 1 only if it holds all three labels.
C22_NoHalfNormalizedNode ==
    pc = "done" =>
        \A i \in 1..Len(nodes) : \A c \in 0..(Len(cracks) - 1) :
            LET seen == C22_LabelsIn(Last(steps).currentFieldState, nodes[i].id, c)
            IN  /\ seen # {1, 2}
                /\ seen # {1, 3}
                /\ (1 \in seen /\ seen # {1}) => seen = {1, 2, 3}

\* a returned run in which one node was normalized and ends with {2,3} and a
\* node that saw all three labels still holds label 1
C22_Witness ==
    /\ pc = "done"
    /\ \E k \in 1..Len(steps) : Tag(k) = "Normalizing Node"
    /\ \E i \in 1..Len(nodes) : \E c \in 0..(Len(cracks) - 1) :
          C22_LabelsIn(Last(steps).currentFieldState, nodes[i].id, c) = {2, 3}
    /\ \E i \in 1..Len(nodes) : \E c \in 0..(Len(cracks) - 1) :
          C22_LabelsIn(Last(steps).currentFieldState, nodes[i].id, c) = {1, 2, 3}

-----------------------------------------------------------------------------

\* C23: a call of checkCrossing with a segment of length zero (cStart = cEnd)
\* or with particle and node at the same point (p = n) returns result 0, as
\* any call returns a result.
C23_DegenerateIsNoCrossing ==
    ccRet # <<>> =>
        /\ ccRet.result \in {0, 2, 3}
        /\ ccArgs.cStart = ccArgs.cEnd => ccRet.result = 0
        /\ ccArgs.p = ccArgs.n => ccRet.result = 0

\* a returned call whose segment has length zero and lies on the line
\* through particle and node, which are apart: all four areas are 0
C23_Witness ==
    /\ ccRet # <<>>
    /\ ccArgs.cStart = ccArgs.cEnd
    /\ ccArgs.p # ccArgs.n
    /\ ccRet.areas = [area1 |-> 0, area2 |-> 0, area3 |-> 0, area4 |-> 0]
    /\ ccRet.result = 0

-----------------------------------------------------------------------------

\* C24: two label lists of the same length with entries in 1..3 that have
\* the same sum of label[i] * 3^i are the same list, and every label can be
\* read back from the sum.
C24_EncodingInjective ==
    Len(ccRet) = 1 =>
        LET combined == ccRet[1]
        IN  /\ \A j, k \in DOMAIN fieldAccumulator :
                  combined[j] = combined[k] => fieldAccumulator[j] = fieldAccumulator[k]
            /\ \A k \in DOMAIN fieldAccumulator :
                  \A c \in 0..(Len(fieldAccumulator[k]) - 1) :
                      C21_LabelAt(combined[k], c) = fieldAccumulator[k][c + 1]

\* the lists 3,1,1 and 1,3,3 of two pairs, combined to the values 15 and 37
C24_Witness ==
    /\ Len(ccRet) = 1
    /\ fieldAccumulator[<<0, 0>>] = <<3, 1, 1>>
    /\ fieldAccumulator[<<1, 0>>] = <<1, 3, 3>>
    /\ ccRet[1][<<0, 0>>] = 15
    /\ ccRet[1][<<1, 0>>] = 37

-----------------------------------------------------------------------------

C25_Particle(id) == particles[CHOOSE j \in 1..Len(particles) : particles[j].id = id]

\* the final label of the pair key for the crack at position c, from the
\* classifications of all its segments: cancel, then take the parities
C25_Derived(key, c) ==
    LET n == FindNode(key[1])
        p == C25_Particle(key[2])
        pts == cracks[c].points
        class(i) == C18_Class(p, n, pts[i + 1], pts[i + 2])
        f2 == Cardinality({i \in 0..(Len(pts) - 2) : class(i) = 2})
        f3 == Cardinality({i \in 0..(Len(pts) - 2) : class(i) = 3})
        m == IF f2 < f3 THEN f2 ELSE f3
    IN  IF (f2 - m) % 2 = 1 THEN 2 ELSE IF (f3 - m) % 2 = 1 THEN 3 ELSE 1

\* the positions of the result steps of the pair key for the crack at position c
C25_ResultSteps(key, c) ==
    {k \in 1..Len(steps) :
        /\ Tag(k) = "Result Node"
        /\ steps[k].highlightNodeId = key[1]
        /\ steps[k].highlightParticleId = key[2]
        /\ steps[k].highlightCrackId = cracks[c].id}

\* C25: with unique ids, the slot of a pair for a crack holds 1 when the
\* crossing phase comes to overwrite it, which it has not done before; at the
\* end of the crack's crossing phase the slot holds the derived final label,
\* and the trace has a result step of the pair and crack, a single one,
\* exactly when that label is not 1.
C25_OverwrittenOnceFromOne ==
    /\ pc = "result" =>
          /\ Label(fieldAccumulator, <<CurNode.id, CurParticle.id>>, crackIdx) = 1
          /\ C25_ResultSteps(<<CurNode.id, CurParticle.id>>, crackIdx + 1) = {}
    /\ pc = "consistency" =>
          \A key \in DOMAIN fieldAccumulator :
              Label(fieldAccumulator, key, crackIdx) = C25_Derived(key, crackIdx + 1)
    /\ pc \in {"consistency", "done"} =>
          \A key \in DOMAIN fieldAccumulator :
              \A c \in 1..(IF pc = "done" THEN Len(cracks) ELSE crackIdx + 1) :
                  Cardinality(C25_ResultSteps(key, c)) =
                      IF C25_Derived(key, c) # 1 THEN 1 ELSE 0

\* the crossing phase of the second crack is over; a pair that got label 2
\* from the first crack got 3 from the second, another pair stayed at 1
C25_Witness ==
    /\ pc = "consistency"
    /\ crackIdx = 1
    /\ \E key \in DOMAIN fieldAccumulator :
          /\ C25_Derived(key, 1) = 2
          /\ C25_Derived(key, 2) = 3
          /\ Cardinality(C25_ResultSteps(key, 2)) = 1
    /\ \E key \in DOMAIN fieldAccumulator :
          /\ C25_Derived(key, 2) = 1
          /\ C25_ResultSteps(key, 2) = {}


C26_Tests(trace, key, crackId) ==
    {k \in 1..Len(trace) :
        /\ trace[k].description[1] = "Checking Node"
        /\ trace[k].highlightNodeId = key[1]
        /\ trace[k].highlightParticleId = key[2]
        /\ trace[k].highlightCrackId = crackId}

\* the counts after the last segment of the crack, before cancellation
C26_Counts(trace, key, crackId) ==
    LET at == C26_Tests(trace, key, crackId)
    IN  IF at = {} THEN [f2 |-> 0, f3 |-> 0]
        ELSE trace[CHOOSE k \in at : \A h \in at : h <= k].segmentCounts

\* the final label of the pair for the crack: the result step's, 1 without one
C26_Final(trace, key, crackId) ==
    LET at == {k \in 1..Len(trace) :
                  /\ trace[k].description[1] = "Result Node"
                  /\ trace[k].highlightNodeId = key[1]
                  /\ trace[k].highlightParticleId = key[2]
                  /\ trace[k].highlightCrackId = crackId}
    IN  IF at = {} THEN 1 ELSE trace[CHOOSE k \in at : TRUE].crossingResult

\* C26: a point inserted strictly inside a crack segment, on the segment,
\* changes no pair's result: for every connected node-particle pair the
\* summed field2/field3 counts over the crack's segments and the pair's final
\* label are those of the run on the crack before the split, and the final
\* combined labels of the two runs are equal.
C26_SplitKeepsCountsAndLabels ==
    (pc = "done" /\ simulationSteps # <<>>) =>
        /\ \A key \in ConnectedPairs : \A c \in 1..Len(cracks) :
              /\ C26_Counts(steps, key, cracks[c].id) =
                     C26_Counts(simulationSteps, key, cracks[c].id)
              /\ C26_Final(steps, key, cracks[c].id) =
                     C26_Final(simulationSteps, key, cracks[c].id)
        /\ Last(steps).currentFieldState = Last(simulationSteps).currentFieldState

\* a finished run on a split crack where some pair has one more test than
\* before the split, crossings counted on both sides, and a final label 3
C26_Witness ==
    /\ pc = "done"
    /\ simulationSteps # <<>>
    /\ \E key \in ConnectedPairs :
          /\ Cardinality(C26_Tests(steps, key, cracks[1].id)) =
                 Cardinality(C26_Tests(simulationSteps, key, cracks[1].id)) + 1
          /\ C26_Counts(steps, key, cracks[1].id) = [f2 |-> 1, f3 |-> 2]
          /\ C26_Final(steps, key, cracks[1].id) = 3


C28_PlaybackStopsAtLastStep ==
    /\ [][IF currentStepIndex < Len(simulationSteps) - 1
          THEN currentStepIndex' = currentStepIndex + 1 /\ isPlaying'
          ELSE currentStepIndex' = currentStepIndex /\ ~isPlaying']_vars
    /\ [](currentStepIndex <= Len(simulationSteps) - 1)
    /\ [](isPlaying => <>(~isPlaying /\ currentStepIndex = Len(simulationSteps) - 1))

\* playback has stopped at the last step of the longest trace the edits give
\* the third preset
C28_Witness ==
    /\ ~isPlaying
    /\ Len(cracks) = 2
    /\ Len(cracks[1].points) = 3
    /\ currentStepIndex = Len(simulationSteps) - 1
    /\ currentStepIndex > 70

====
